---- MODULE Spec2Model ----
(***************************************************************************)
(* A model of python-varname: the frame-ignoring system                    *)
(* (src/varname/ignore.py) and the assignment-target extraction of         *)
(* varname() (src/varname/core.py, src/varname/utils.py).                  *)
(*                                                                         *)
(* Strings that the code takes apart (module names, paths, qualified       *)
(* names, glob patterns) are sequences of one-character strings, so that   *)
(* startswith, realpath and fnmatch are computed, not assumed.             *)
(***************************************************************************)
EXTENDS Integers, Sequences, FiniteSets, TLC

(***************************************************************************)
(* Bounds of the model.                                                    *)
(***************************************************************************)
MaxStack == 4
MaxDepth == 2
MaxRules == 2
MaxSkip == 1
MaxN == 3
MaxElts == 2
MaxTargets == 2
MaxLines == 2
MaxFargs == 2
MaxBack == 2
MaxCaches == 2
MaxNest == 3
MaxReads == 2

(***************************************************************************)
(* Generic helpers.                                                        *)
(***************************************************************************)
SeqsOfLen(S, lo, hi) == UNION {[1..k -> S] : k \in lo..hi}

StartsWith(s, p) == Len(p) <= Len(s) /\ SubSeq(s, 1, Len(p)) = p

EndsWith(s, p) == Len(p) <= Len(s) /\ SubSeq(s, Len(s) - Len(p) + 1, Len(s)) = p

RECURSIVE Count(_, _)
Count(seq, x) ==
    IF seq = <<>> THEN 0
    ELSE (IF Head(seq) = x THEN 1 ELSE 0) + Count(Tail(seq), x)

\* A Python list index k (0-based, negative counts from the end) is valid.
PyInRange(seq, k) == k < Len(seq) /\ k >= 0 - Len(seq)

PyAt(seq, k) == IF k >= 0 THEN seq[k + 1] ELSE seq[Len(seq) + k + 1]

(***************************************************************************)
(* The host: paths, modules and sources.                                   *)
(***************************************************************************)
Sep == "/"

NoFile == <<>>
NoModule == <<>>

\* sysconfig.get_python_lib(standard_lib=True): no trailing separator.
StdlibDir == <<"/", "l">>
\* The third-party tree nested inside the standard-library directory.
SitePackagesDir == <<"/", "l", "/", "s">>
StdlibFile == <<"/", "l", "/", "o">>
SiteFile == <<"/", "l", "/", "s", "/", "t">>
VarnameFile == <<"/", "u", "/", "v">>
SiblingFile == <<"/", "l", "x", "/", "t">>
UserFile == <<"/", "u", "/", "a">>
DualFile == <<"/", "u", "/", "d">>
ExecFile == <<"/", "u", "/", "e">>
StringFile == <<"<", "s", ">">>

IsDir(p) == p \in {StdlibDir, SitePackagesDir, <<"/", "u">>}

IsFile(p) ==
    p \in {StdlibFile, SiteFile, VarnameFile, SiblingFile, UserFile, DualFile, ExecFile}

\* os.path.realpath on a link-free tree: drops a trailing separator.
Realpath(p) ==
    IF Len(p) > 1 /\ p[Len(p)] = Sep THEN SubSeq(p, 1, Len(p) - 1) ELSE p

VarnameModule == <<"v">>
ModX == <<"x">>
ModY == <<"y">>
ModDual == <<"d">>
ModExec == <<"e">>

\* module.__file__ (NoFile when the attribute is missing).
ModFile(m) ==
    CASE m = ModDual -> DualFile
      [] m \in {ModX, ModY, ModExec} -> NoFile
      [] m = VarnameModule -> VarnameFile
      [] OTHER -> UserFile

\* Whether executing.Source has a parsed tree for the file.
HasTree(file) == IsFile(file)

\* list(source._qualnames.values()): one qualified name per definition.
SourceQualnames(file) ==
    IF file \in {DualFile, ExecFile}
    THEN << <<"f">>, <<"f">>, <<"f", "3">> >>
    ELSE << <<"f">>, <<"g">>, <<"u">>, <<"f", "3">>, <<"L">> >>

(***************************************************************************)
(* fnmatch(name, pat): '*' matches any run of characters, '?' exactly one. *)
(***************************************************************************)
RECURSIVE Fnmatch(_, _)
Fnmatch(s, p) ==
    IF p = <<>> THEN s = <<>>
    ELSE IF Head(p) = "*"
         THEN Fnmatch(s, Tail(p)) \/ (s # <<>> /\ Fnmatch(Tail(s), p))
         ELSE /\ s # <<>>
              /\ (Head(p) = "?" \/ Head(p) = Head(s))
              /\ Fnmatch(Tail(s), Tail(p))

HasWildcard(p) == \E k \in 1..Len(p) : p[k] \in {"*", "?"}

(***************************************************************************)
(* Frames and ignore elements.                                             *)
(*   frame: code (identity of the code object), mod (name of the module    *)
(*   inspect.getmodule finds, NoModule when it finds none), globals (the   *)
(*   module whose namespace is f_globals), file (co_filename), qual (the   *)
(*   qualified name executing computes for the code object).               *)
(*   element: ty is the Python type of what the user passed; kind is the   *)
(*   IgnoreElem subclass create_ignore_elem builds for it.                 *)
(***************************************************************************)
Frame(code, mod, globals, file, qual) ==
    [code |-> code, mod |-> mod, globals |-> globals, file |-> file, qual |-> qual]

Elem(ty, code, n, mod, path, pat) ==
    [ty |-> ty, code |-> code, n |-> n, mod |-> mod, path |-> path, pat |-> pat]

ElemModule(m) == Elem("module", "", 0, m, NoFile, <<>>)
ElemStr(p) == Elem("str", "", 0, NoModule, p, <<>>)
ElemFunction(c) == Elem("function", c, 0, NoModule, NoFile, <<>>)
ElemDecorated(c, n) == Elem("function_int", c, n, NoModule, NoFile, <<>>)
ElemModuleQualname(m, q) == Elem("module_str", "", 0, m, NoFile, q)
ElemFilenameQualname(p, q) == Elem("str_str", "", 0, NoModule, p, q)
ElemOnlyQualname(q) == Elem("none_str", "", 0, NoModule, NoFile, q)

\* create_ignore_elem: the subclass chosen for an element.
KindOf(e) ==
    CASE e.ty = "module" -> "IgnoreModule"
      [] e.ty = "str" -> IF IsDir(e.path) THEN "IgnoreDirname" ELSE "IgnoreFilename"
      [] e.ty = "function" -> "IgnoreFunction"
      [] e.ty = "function_int" -> "IgnoreDecorated"
      [] e.ty = "module_str" -> "IgnoreModuleQualname"
      [] e.ty = "str_str" -> "IgnoreFilenameQualname"
      [] e.ty = "none_str" -> "IgnoreOnlyQualname"

\* IgnoreModuleQualname._check_qualname_by_source: TRUE when it raises
\* QualnameNonUniqueError.
QualnameNonUnique(file, pat) ==
    HasTree(file) /\ Count(SourceQualnames(file), pat) > 1

\* The module needs the injected ignore id (IgnoreModule.__init__,
\* IgnoreModuleQualname.__init__).
NeedsIgnoreId(m) == ModFile(m) = NoFile \/ ~IsFile(ModFile(m))

\* create_ignore_elem on one element. raised: the constructor raised
\* QualnameNonUniqueError; qname_checked: the instance attribute of
\* IgnoreModuleQualname; mark: the module the ignore id is attached to.
CreateIgnoreElem(e) ==
    LET kind == KindOf(e)
        built == ModFile(e.mod) # NoFile
    IN [kind |-> kind, code |-> e.code, n |-> e.n, mod |-> e.mod,
        path |-> e.path, pat |-> e.pat,
        qname_checked |-> (kind = "IgnoreModuleQualname" /\ built),
        raised |-> (/\ kind = "IgnoreModuleQualname"
                    /\ built
                    /\ QualnameNonUnique(ModFile(e.mod), e.pat)),
        mark |-> (/\ kind \in {"IgnoreModule", "IgnoreModuleQualname"}
                  /\ NeedsIgnoreId(e.mod))]

\* The always-present head of the list built by IgnoreList.create.
DefaultElems ==
    << ElemStr(StdlibDir), ElemModule(VarnameModule), ElemOnlyQualname(<<"*", "L">>) >>

NDefaults == Len(DefaultElems)

(***************************************************************************)
(* IgnoreElem.match of each subclass.  frame_no is 0-based, as in Python.  *)
(***************************************************************************)
\* The ignore id of module m equals the one found in the frame's globals.
SameIgnoreId(m, frame, markers) == m \in markers /\ frame.globals = m

\* Mutant: the prefix test without the dot.
IgnoreModuleMatchNoDot(rule, frame, markers) ==
    IF frame.mod # NoModule
    THEN StartsWith(frame.mod, rule.mod)
    ELSE SameIgnoreId(rule.mod, frame, markers)

IgnoreModuleMatch(rule, frame, markers) ==
    IF frame.mod # NoModule
    THEN frame.mod = rule.mod \/ StartsWith(frame.mod, rule.mod \o <<".">>)
    ELSE SameIgnoreId(rule.mod, frame, markers)

IgnoreFilenameMatch(rule, frame) == Realpath(frame.file) = Realpath(rule.path)

IgnoreDirnameMatch(rule, frame) ==
    LET dir == IF EndsWith(rule.path, <<Sep>>) THEN rule.path ELSE rule.path \o <<Sep>>
    IN StartsWith(Realpath(frame.file), Realpath(dir))

IgnoreFunctionMatch(rule, frame) == frame.code = rule.code

IgnoreDecoratedMatch(rule, frame_no, frameinfos) ==
    IF PyInRange(frameinfos, frame_no + rule.n)
    THEN PyAt(frameinfos, frame_no + rule.n).code = rule.code
    ELSE FALSE

\* Returns what match returns, whether it raised, and qname_checked after it.
IgnoreModuleQualnameMatch(rule, frame, markers) ==
    LET no == [matched |-> FALSE, raised |-> FALSE, checked |-> rule.qname_checked]
    IN IF frame.mod # NoModule /\ frame.mod # rule.mod THEN no
       ELSE IF frame.mod = NoModule /\ ~SameIgnoreId(rule.mod, frame, markers) THEN no
       ELSE IF ~rule.qname_checked /\ QualnameNonUnique(frame.file, rule.pat)
            THEN [matched |-> FALSE, raised |-> TRUE, checked |-> FALSE]
            ELSE [matched |-> Fnmatch(frame.qual, rule.pat), raised |-> FALSE,
                  checked |-> TRUE]

IgnoreFilenameQualnameMatch(rule, frame) ==
    /\ Realpath(frame.file) = Realpath(rule.path)
    /\ Fnmatch(frame.qual, rule.pat)

IgnoreOnlyQualnameMatch(rule, frame) == Fnmatch(frame.qual, rule.pat)

\* ignore_elem.match(frame_no, frameinfos), whatever the subclass.
Match(rule, frame_no, frameinfos, markers) ==
    LET frame == frameinfos[frame_no + 1]
        plain(b) == [matched |-> b, raised |-> FALSE, checked |-> rule.qname_checked]
    IN CASE rule.kind = "IgnoreModule" -> plain(IgnoreModuleMatch(rule, frame, markers))
         [] rule.kind = "IgnoreFilename" -> plain(IgnoreFilenameMatch(rule, frame))
         [] rule.kind = "IgnoreDirname" -> plain(IgnoreDirnameMatch(rule, frame))
         [] rule.kind = "IgnoreFunction" -> plain(IgnoreFunctionMatch(rule, frame))
         [] rule.kind = "IgnoreDecorated" ->
                plain(IgnoreDecoratedMatch(rule, frame_no, frameinfos))
         [] rule.kind = "IgnoreModuleQualname" ->
                IgnoreModuleQualnameMatch(rule, frame, markers)
         [] rule.kind = "IgnoreFilenameQualname" ->
                plain(IgnoreFilenameQualnameMatch(rule, frame))
         [] rule.kind = "IgnoreOnlyQualname" -> plain(IgnoreOnlyQualnameMatch(rule, frame))

\* Mutant: a matching rule reports no advance.
AdvanceNone(rule) == 0

\* Mutant: a decorated rule advances by its count, not its count plus one.
AdvanceShort(rule) == IF rule.kind = "IgnoreDecorated" THEN rule.n ELSE 1

\* The advance a matching rule asks for (nextframe_to_check's return value).
Advance(rule) == IF rule.kind = "IgnoreDecorated" THEN rule.n + 1 ELSE 1

(***************************************************************************)
(* IgnoreList.nextframe_to_check, from rule k on.  next: the number it     *)
(* returns (0: no rule matched); rule: the index of the rule that matched  *)
(* (0: none); raised: a match raised; list: the rules with their           *)
(* qname_checked as the calls left them; tried: what each match returned.  *)
(***************************************************************************)
RECURSIVE NextframeFrom(_, _, _, _, _, _)
NextframeFrom(k, list, frame_no, frameinfos, markers, tried) ==
    IF k > Len(list)
    THEN [next |-> 0, rule |-> 0, raised |-> FALSE, list |-> list, tried |-> tried]
    ELSE LET m == Match(list[k], frame_no, frameinfos, markers)
             list2 == [list EXCEPT ![k].qname_checked = m.checked]
         IN IF m.raised
            THEN [next |-> 0, rule |-> k, raised |-> TRUE, list |-> list2,
                  tried |-> tried]
            ELSE IF m.matched
            THEN [next |-> Advance(list[k]), rule |-> k, raised |-> FALSE,
                  list |-> list2, tried |-> Append(tried, TRUE)]
            ELSE NextframeFrom(k + 1, list2, frame_no, frameinfos, markers,
                               Append(tried, FALSE))

nextframe_to_check(list, frame_no, frameinfos, markers) ==
    NextframeFrom(1, list, frame_no, frameinfos, markers, <<>>)

(***************************************************************************)
(* IgnoreList.create: the defaults, then the caller's elements, each built *)
(* by create_ignore_elem in order.  A constructor that raises ends it.     *)
(***************************************************************************)
RECURSIVE CreateFrom(_, _, _)
CreateFrom(elems, list, markers) ==
    IF elems = <<>>
    THEN [list |-> list, markers |-> markers, raised |-> FALSE]
    ELSE LET e == CreateIgnoreElem(Head(elems))
             markers2 == IF e.mark THEN markers \cup {e.mod} ELSE markers
             rule == [kind |-> e.kind, code |-> e.code, n |-> e.n, mod |-> e.mod,
                      path |-> e.path, pat |-> e.pat,
                      qname_checked |-> e.qname_checked]
         IN IF e.raised
            THEN [list |-> list, markers |-> markers2, raised |-> TRUE]
            ELSE CreateFrom(Tail(elems), Append(list, rule), markers2)

IgnoreListCreate(ignore) == CreateFrom(DefaultElems \o ignore, <<>>, {})

(***************************************************************************)
(* State.                                                                  *)
(*   frames      inspect.getouterframes(sys._getframe(2)), innermost first *)
(*   ignore      the caller's ignore elements                              *)
(*   N           the frame_no argument of get_frame                        *)
(*   debug       config.debug                                              *)
(*   pc          "create" (before IgnoreList.create), "walk" (in the loop  *)
(*               of get_frame), "done"                                     *)
(*   ignore_list the IgnoreList's elements                                 *)
(*   markers     the modules carrying an injected ignore id                *)
(*   i, frame_no the locals of get_frame                                   *)
(*   outcome     what the call returned or raised                          *)
(*   log         the lines debug_ignore_frame wrote to stderr              *)
(*   visits      history: for each loop iteration, the frame index, the    *)
(*               rule that matched (0: none), what each match returned,    *)
(*               whether a match raised, and whether frame_no was          *)
(*               decremented for the frame                                 *)
(***************************************************************************)
VARIABLES frames, ignore, N, debug, pc, ignore_list, markers, i, frame_no,
          outcome, log, visits

wvars == <<frames, ignore, N, debug, pc, ignore_list, markers, i, frame_no,
           outcome, log, visits>>

(***************************************************************************)
(* State of a call of varname().                                           *)
(*   site       the syntax tree around the call node executing finds for   *)
(*              the selected frame: its ancestors, nearest first           *)
(*   env        what get_node meets: "node" (the call node is found),      *)
(*              "noframe" (get_frame raised), "nosource" (no source text), *)
(*              "ambiguous" (source, but no node)                          *)
(*   multi_vars, raise_exc, strict   the arguments of varname              *)
(*   vpc        "call" (varname entered), "done", "idle" (no call)         *)
(*   vresult    what varname returned or raised                            *)
(*   warnings   the warnings it issued                                     *)
(*   refnode    what get_node handed to it ("pending" before the call)     *)
(***************************************************************************)
VARIABLES site, env, multi_vars, raise_exc, strict, vpc, vresult, warnings,
          refnode

evars == <<site, env, multi_vars, raise_exc, strict, vpc, vresult, warnings,
           refnode>>

(***************************************************************************)
(* State of a call of argname().                                           *)
(*   acall      the call: the signature of the callee, the positional and  *)
(*              keyword arguments of the call node, the requested names    *)
(*              (arg, *more_args), vars_only, and what the retrieval of    *)
(*              the call node meets (as env)                               *)
(*   apc        "call" (argname entered), "loop" (in the for loop over the *)
(*              requested names), "done", "idle" (no call)                 *)
(*   argument_sources   the mapping get_argument_sources returned          *)
(*   out_list, farg_star   the locals out and farg_star of the loop        *)
(*   fi         the number of requested names the loop has dealt with      *)
(*   aresult    what argname returned or raised                            *)
(***************************************************************************)
VARIABLES acall, apc, argument_sources, out_list, farg_star, fi, aresult

avars == <<acall, apc, argument_sources, out_list, farg_star, fi, aresult>>

\* No call of argname is under way.
ArgnameIdle ==
    /\ acall = <<>>
    /\ apc = "idle"
    /\ argument_sources = <<>>
    /\ out_list = <<>>
    /\ farg_star = FALSE
    /\ fi = 0
    /\ aresult = [kind |-> "idle", exc |-> "", val |-> <<>>]

(***************************************************************************)
(* A call of nameof:                                                       *)
(*   ncall      the call as written (its positional arguments, whether it  *)
(*              passes keywords), what the frame is executing, how the     *)
(*              interpreter lays out its instructions, f_lasti, and what   *)
(*              the retrieval of the call node meets (as env)              *)
(*   npc        "call" (nameof entered), "source" (the node was found),    *)
(*              "bytecode" (bytecode_nameof entered), "name" (the call     *)
(*              instruction was accepted), "done", "idle" (no call)        *)
(*   nidx       current_instruction_index of bytecode_nameof               *)
(*   nresult    what nameof returned or raised, with the message           *)
(***************************************************************************)
VARIABLES ncall, npc, nidx, nresult

nvars == <<ncall, npc, nidx, nresult>>

\* No call of nameof is under way.
NameofIdle ==
    /\ ncall = <<>>
    /\ npc = "idle"
    /\ nidx = 0
    /\ nresult = [kind |-> "idle", exc |-> "", msg |-> "", val |-> <<>>]

(***************************************************************************)
(* Invocations of functions decorated with helpers.register that share one *)
(* globals dict:                                                           *)
(*   rstack     the invocations under way, outermost first: the name       *)
(*              varname resolved for it, where it is ("body", or "raise":  *)
(*              an exception is on its way out through the wrapper), the   *)
(*              values its body read from __varname__, the exception       *)
(*   rglobals   globals()["__varname__"], Missing when the key is absent   *)
(*   routcome   the exception that left the outermost wrapper, "" if none  *)
(***************************************************************************)
VARIABLES rstack, rglobals, routcome

rvars == <<rstack, rglobals, routcome>>

Missing == "<missing>"

\* No registered function is being called.
RegisterIdle ==
    /\ rstack = <<>>
    /\ rglobals = Missing
    /\ routcome = "idle"

(***************************************************************************)
(* Calls of varname made by two threads at once:                           *)
(*   tsetup     per thread, whether it passes ignore=[(module, qualname)]  *)
(*              for a module without a file                                *)
(*   tpc        per thread: "create" (IgnoreList.create), "match"          *)
(*              (IgnoreModuleQualname.match has read the id of the module) *)
(*              "attach" (the frame is chosen), "message" (the node is     *)
(*              found and carries a frame), "done", "idle"                 *)
(*   tseen      per thread, the ignore id match read from the module       *)
(*   tsel       per thread, the index of the frame get_frame returned      *)
(*   tread      per thread, whose frame rich_exc_message read off the node *)
(*   tresult    per thread, the exception raised and its message           *)
(*   node_frame per call node, the thread whose frame node.__frame__ holds *)
(*   ignore_id  the attribute __varname_ignore_id__ of the module          *)
(***************************************************************************)
VARIABLES tsetup, tpc, tseen, tsel, tread, tresult, node_frame, ignore_id

tvars == <<tsetup, tpc, tseen, tsel, tread, tresult, node_frame, ignore_id>>

\* No thread is calling.
ThreadsIdle ==
    /\ tsetup = <<>>
    /\ tpc = <<>>
    /\ tseen = <<>>
    /\ tsel = <<>>
    /\ tread = <<>>
    /\ tresult = <<>>
    /\ node_frame = <<>>
    /\ ignore_id = 0

\* The variables of the calls other than the walk, varname and argname.
xvars == <<nvars, rvars, tvars>>

OthersIdle == NameofIdle /\ RegisterIdle /\ ThreadsIdle

vars == <<wvars, evars, avars, xvars>>

Outcome(kind, idx, cause) == [kind |-> kind, idx |-> idx, cause |-> cause]

Pending == Outcome("pending", -1, "")

\* A variant whose count of frames still to skip is one too high.
LogLineOneMore(msg, rule, more, frame) ==
    [msg |-> msg, rule |-> rule, more |-> more + 1, frame |-> frame]

LogLine(msg, rule, more, frame) ==
    [msg |-> msg, rule |-> rule, more |-> more, frame |-> frame]

\* A variant that writes whatever config.debug is.
DebugAlwaysWrites(out, line) == Append(out, line)

\* debug_ignore_frame: writes only when config.debug is set.
debug_ignore_frame(out, line) == IF debug THEN Append(out, line) ELSE out

\* A variant that takes every non-zero answer for a jump.
IgnoredNonZero(nextframe) == nextframe # 0

\* get_frame's test of what nextframe_to_check returned: if nextframe > 0.
Ignored(nextframe) == nextframe > 0

(***************************************************************************)
(* The calls the model runs.  Each family exercises some rule kinds.       *)
(***************************************************************************)
UserMod == <<"a">>

\* Frames of user functions f and u of one module.
FuncFrame(c) == Frame(c, UserMod, UserMod, UserFile, <<c>>)

FuncFrames == {FuncFrame(c) : c \in {"f", "u"}}

FuncElems == {ElemFunction("f")} \cup {ElemDecorated("f", n) : n \in 0..MaxSkip}

FuncCalls ==
    {[frames |-> fs, ignore |-> ig, N |-> n, debug |-> FALSE] :
        fs \in SeqsOfLen(FuncFrames, 1, MaxStack),
        ig \in SeqsOfLen(FuncElems, 0, MaxRules),
        n \in 1..MaxN}

\* Frames of modules p, p.s, ps, q, and of code run by exec in the
\* namespaces of the file-less modules x and y.
ModP == <<"p">>
ModPS == <<"p", ".", "s">>
ModPx == <<"p", "s">>
ModQ == <<"q">>

ModFrames ==
    {Frame("u", m, m, UserFile, <<"u">>) : m \in {ModP, ModPS, ModPx, ModQ}}
    \cup {Frame("u", NoModule, m, StringFile, <<"u">>) : m \in {ModX, ModY}}

ModCalls ==
    {[frames |-> fs, ignore |-> <<ElemModule(m)>>, N |-> n, debug |-> d] :
        fs \in SeqsOfLen(ModFrames, 1, MaxDepth),
        m \in {ModP, ModPx, ModX},
        n \in 1..MaxN,
        d \in BOOLEAN}

\* Frames the default rules are about: the standard library, third-party
\* code installed under it, a directory whose name extends its name, the
\* varname package, lambdas, and user code.
DefaultFrames ==
    { Frame("o", <<"o">>, <<"o">>, StdlibFile, <<"u">>),
      Frame("t", <<"t">>, <<"t">>, SiteFile, <<"u">>),
      Frame("t", <<"t">>, <<"t">>, SiblingFile, <<"u">>),
      Frame("v", VarnameModule, VarnameModule, VarnameFile, <<"u">>),
      Frame("c", <<"v", ".", "c">>, <<"v", ".", "c">>, VarnameFile, <<"u">>),
      Frame("l", UserMod, UserMod, UserFile, <<"L">>),
      Frame("l", UserMod, UserMod, UserFile, <<"u", ".", "L">>),
      Frame("u", UserMod, UserMod, UserFile, <<"u">>) }

DefaultCalls ==
    {[frames |-> fs, ignore |-> <<>>, N |-> n, debug |-> FALSE] :
        fs \in SeqsOfLen(DefaultFrames, 1, MaxDepth),
        n \in 1..MaxN}

\* Frames of a module that defines f twice (playground/module_dual_qualnames),
\* of the same source run without a module file, and of a module that
\* defines every name once.
QualFrames ==
    { Frame("f", ModDual, ModDual, DualFile, <<"f">>),
      Frame("f3", ModDual, ModDual, DualFile, <<"f", "3">>),
      Frame("f", NoModule, ModExec, ExecFile, <<"f">>),
      Frame("f", UserMod, UserMod, UserFile, <<"f">>) }

QualPatterns == { <<"f">>, <<"f", "3">>, <<"f", "*">> }

QualElems ==
    {ElemModuleQualname(m, q) : m \in {ModDual, ModExec, UserMod}, q \in QualPatterns}
    \cup {ElemFilenameQualname(p, q) : p \in {DualFile, UserFile}, q \in QualPatterns}

QualCalls ==
    {[frames |-> fs, ignore |-> <<e>>, N |-> n, debug |-> FALSE] :
        fs \in SeqsOfLen(QualFrames, 1, MaxDepth),
        e \in QualElems,
        n \in 1..MaxN}

\* The smaller calls of FuncCalls once more, with config.debug set.
TraceCalls ==
    {[c EXCEPT !.debug = TRUE] :
        c \in {d \in FuncCalls : Len(d.frames) <= MaxDepth + 1 /\ Len(d.ignore) <= 1}}

Calls == FuncCalls \cup ModCalls \cup DefaultCalls \cup QualCalls \cup TraceCalls

\* Calls whose one rule is a (function, int) pair with a zero or negative int:
\* create_ignore_elem tests isinstance(ignore_elem[1], int) and nothing more.
SignedElems == {ElemDecorated("f", n) : n \in (0 - MaxBack)..0}

SignedCalls ==
    {[frames |-> fs, ignore |-> <<e>>, N |-> n, debug |-> d] :
        fs \in SeqsOfLen(FuncFrames, 1, MaxDepth + 1),
        e \in SignedElems,
        n \in 1..MaxN,
        d \in BOOLEAN}

WalkInit ==
    /\ \E c \in Calls :
        /\ frames = c.frames
        /\ ignore = c.ignore
        /\ N = c.N
        /\ debug = c.debug
    /\ pc = "create"
    /\ ignore_list = <<>>
    /\ markers = {}
    /\ i = 0
    /\ frame_no = N
    /\ outcome = Pending
    /\ log = <<>>
    /\ visits = <<>>

(***************************************************************************)
(* IgnoreList.create(ignore), called by the public API before get_frame.   *)
(***************************************************************************)
Create ==
    /\ pc = "create"
    /\ LET r == IgnoreListCreate(ignore)
       IN /\ markers' = r.markers
          /\ IF r.raised
             THEN /\ pc' = "done"
                  /\ outcome' = Outcome("QualnameNonUniqueError", -1, "")
                  /\ UNCHANGED ignore_list
             ELSE /\ pc' = "walk"
                  /\ ignore_list' = r.list
                  /\ UNCHANGED outcome
    /\ UNCHANGED <<frames, ignore, N, debug, i, frame_no, log, visits>>
    /\ UNCHANGED evars
    /\ UNCHANGED avars
    /\ UNCHANGED xvars

(***************************************************************************)
(* One iteration of the while loop of IgnoreList.get_frame.                *)
(***************************************************************************)
LoopStep ==
    /\ pc = "walk"
    /\ i < Len(frames)
    /\ LET r == nextframe_to_check(ignore_list, i, frames, markers)
       IN /\ ignore_list' = r.list
          /\ visits' = Append(visits, [idx |-> i, rule |-> r.rule, tried |-> r.tried,
                                       raised |-> r.raised,
                                       counted |-> ~r.raised /\ ~Ignored(r.next)])
          /\ IF r.raised
             THEN \* except Exception as exc: raise VarnameRetrievingError from exc
                  /\ pc' = "done"
                  /\ outcome' = Outcome("VarnameRetrievingError", -1,
                                        "QualnameNonUniqueError")
                  /\ UNCHANGED <<i, frame_no, log>>
             ELSE IF Ignored(r.next)
             THEN /\ i' = i + r.next
                  /\ log' = debug_ignore_frame(log, LogLine("Ignored by", r.rule, 0, i))
                  /\ UNCHANGED <<pc, frame_no, outcome>>
             ELSE /\ frame_no' = frame_no - 1
                  /\ IF frame_no - 1 = 0
                     THEN /\ log' = debug_ignore_frame(
                                        IF r.rule # 0
                                        THEN debug_ignore_frame(
                                                 log, LogLine("Ignored by", r.rule, 0, i))
                                        ELSE log,
                                        LogLine("Gotcha!", 0, 0, i))
                          /\ pc' = "done"
                          /\ outcome' = Outcome("frame", i, "")
                          /\ UNCHANGED i
                     ELSE /\ log' = debug_ignore_frame(
                                        IF r.rule # 0
                                        THEN debug_ignore_frame(
                                                 log, LogLine("Ignored by", r.rule, 0, i))
                                        ELSE log,
                                        LogLine("Skipping", 0, frame_no - 2, i))
                          /\ i' = i + 1
                          /\ UNCHANGED <<pc, outcome>>
    /\ UNCHANGED <<frames, ignore, N, debug, markers>>
    /\ UNCHANGED evars
    /\ UNCHANGED avars
    /\ UNCHANGED xvars

(***************************************************************************)
(* The loop of get_frame ends without a return: the function falls off its *)
(* end, and the caller receives None.                                      *)
(***************************************************************************)
Exhausted ==
    /\ pc = "walk"
    /\ i >= Len(frames)
    /\ pc' = "done"
    /\ outcome' = Outcome("None", -1, "")
    /\ UNCHANGED <<frames, ignore, N, debug, ignore_list, markers, i, frame_no,
                   log, visits>>
    /\ UNCHANGED evars
    /\ UNCHANGED avars
    /\ UNCHANGED xvars

\* No call of varname is under way.
VarnameIdle ==
    /\ site = <<>>
    /\ env = "idle"
    /\ multi_vars = FALSE
    /\ raise_exc = FALSE
    /\ strict = FALSE
    /\ vpc = "idle"
    /\ vresult = [kind |-> "idle", exc |-> "", val |-> <<>>]
    /\ warnings = <<>>
    /\ refnode = "pending"

Init == WalkInit /\ VarnameIdle /\ ArgnameIdle /\ OthersIdle

Next == Create \/ LoopStep \/ Exhausted

Spec == Init /\ [][Next]_vars

(***************************************************************************)
(* The same walk for the calls of SignedCalls.  get_frame is straight-line *)
(* code of one thread: a step that can be taken is taken.  A step of Next  *)
(* can be taken exactly while the call has not ended (Create before the    *)
(* loop, LoopStep or Exhausted in it), so weak fairness of Next is written *)
(* with pc # "done" standing for ENABLED <<Next>>_vars.                    *)
(***************************************************************************)
SignedInit ==
    /\ \E c \in SignedCalls :
        /\ frames = c.frames
        /\ ignore = c.ignore
        /\ N = c.N
        /\ debug = c.debug
    /\ pc = "create"
    /\ ignore_list = <<>>
    /\ markers = {}
    /\ i = 0
    /\ frame_no = N
    /\ outcome = Pending
    /\ log = <<>>
    /\ visits = <<>>
    /\ VarnameIdle
    /\ ArgnameIdle
    /\ OthersIdle

WalkFair == []<>(pc = "done") \/ []<><<Next>>_vars

SpecSigned == SignedInit /\ [][Next]_vars /\ WalkFair

(***************************************************************************)
(* Syntax trees.  An expression node is a record: t is the class of the   *)
(* ast node, id its identifier, attribute name or constant, kids its child *)
(* expressions in field order.  A text is a sequence of tokens.            *)
(***************************************************************************)
Node(t, id, kids) == [t |-> t, id |-> id, kids |-> kids]

Name(id) == Node("Name", id, <<>>)
Attribute(value, attr) == Node("Attribute", attr, <<value>>)
Constant(value) == Node("Constant", value, <<>>)
Subscript(value, slice) == Node("Subscript", "", <<value, slice>>)
Starred(value) == Node("Starred", "", <<value>>)
Tuple(elts) == Node("Tuple", "", elts)
List(elts) == Node("List", "", elts)
Slice(lower, upper, step) == Node("Slice", "", <<lower, upper, step>>)
Call(func) == Node("Call", "", <<func>>)
BinOp(left, right) == Node("BinOp", "+", <<left, right>>)
\* An absent optional child (the None of a Slice bound).
Absent == Node("None", "", <<>>)

\* The values node_name produces: a str, a tuple of values, or the exception
\* that left it.
StrVal(s) == [k |-> "str", s |-> s, e |-> <<>>]
TupVal(e) == [k |-> "tuple", s |-> <<>>, e |-> e]
Raised(exc) == [k |-> exc, s |-> <<>>, e |-> <<>>]
NoneVal == [k |-> "None", s |-> <<>>, e |-> <<>>]
IsRaised(v) == v.k \notin {"str", "tuple", "None"}

Digits == {"0", "1"}

\* repr() of a constant: an int prints as its digits, a str in quotes.
ReprConstant(value) ==
    IF value \in Digits THEN <<value>> ELSE <<"'", value, "'">>

RECURSIVE Join(_, _)
\* sep.join(parts) for texts.
Join(parts, sep) ==
    IF parts = <<>> THEN <<>>
    ELSE IF Len(parts) = 1 THEN parts[1]
    ELSE parts[1] \o sep \o Join(Tail(parts), sep)

RECURSIVE ReprVal(_)
\* repr() of a str or of a tuple of values.
ReprVal(v) ==
    IF v.k = "str" THEN <<"'">> \o v.s \o <<"'">>
    ELSE <<"(">>
         \o Join([j \in 1..Len(v.e) |-> ReprVal(v.e[j])], <<",", " ">>)
         \o (IF Len(v.e) = 1 THEN <<",">> ELSE <<>>)
         \o <<")">>

\* What an f-string writes for a value: a str as it is, a tuple by its repr.
Format(v) == IF v.k = "str" THEN v.s ELSE ReprVal(v)

\* The first exception among values computed left to right, if any.
FirstRaised(vs) ==
    LET bad == {j \in 1..Len(vs) : IsRaised(vs[j])}
    IN IF bad = {} THEN NoneVal
       ELSE vs[CHOOSE j \in bad : \A m \in bad : j <= m]

\* ', '.join(node_name(elem) for elem in elts): join first runs the generator
\* to its end, so an exception of node_name comes first; then it refuses an
\* item that is not a str.
JoinNames(vs) ==
    IF IsRaised(FirstRaised(vs)) THEN FirstRaised(vs)
    ELSE IF \E j \in 1..Len(vs) : vs[j].k # "str" THEN Raised("TypeError")
    ELSE StrVal(Join([j \in 1..Len(vs) |-> vs[j].s], <<",", " ">>))

RECURSIVE node_name(_, _)
node_name(node, subscript_slice) ==
    LET nn(j) == node_name(node.kids[j], FALSE)
        elts == [j \in 1..Len(node.kids) |-> nn(j)]
        has(j) == node.kids[j] # Absent
    IN
    IF node.t = "Name" THEN StrVal(<<node.id>>)
    ELSE IF node.t = "Attribute" THEN
        IF IsRaised(nn(1)) THEN nn(1)
        ELSE StrVal(Format(nn(1)) \o <<".", node.id>>)
    ELSE IF node.t = "Constant" THEN StrVal(ReprConstant(node.id))
    ELSE IF node.t \in {"List", "Tuple"} /\ ~subscript_slice THEN
        IF IsRaised(FirstRaised(elts)) THEN FirstRaised(elts)
        ELSE TupVal(elts)
    ELSE IF node.t = "List" THEN
        IF IsRaised(JoinNames(elts)) THEN JoinNames(elts)
        ELSE StrVal(<<"[">> \o JoinNames(elts).s \o <<"]">>)
    ELSE IF node.t = "Tuple" THEN
        IF Len(node.kids) = 1 THEN
            IF IsRaised(nn(1)) THEN nn(1)
            ELSE StrVal(<<"(">> \o Format(nn(1)) \o <<",", ")">>)
        ELSE IF IsRaised(JoinNames(elts)) THEN JoinNames(elts)
        ELSE StrVal(<<"(">> \o JoinNames(elts).s \o <<")">>)
    ELSE IF node.t = "Starred" THEN
        IF IsRaised(nn(1)) THEN nn(1)
        ELSE StrVal(<<"*">> \o Format(nn(1)))
    ELSE IF node.t = "Slice" THEN
        IF has(1) /\ has(2) /\ has(3) THEN
            IF IsRaised(FirstRaised(elts)) THEN FirstRaised(elts)
            ELSE StrVal(Format(nn(1)) \o <<":">> \o Format(nn(2)) \o <<":">>
                        \o Format(nn(3)))
        ELSE IF has(1) /\ has(2) THEN
            IF IsRaised(FirstRaised(<<nn(1), nn(2)>>))
              THEN FirstRaised(<<nn(1), nn(2)>>)
            ELSE StrVal(Format(nn(1)) \o <<":">> \o Format(nn(2)))
        ELSE IF has(1) THEN
            IF IsRaised(nn(1)) THEN nn(1)
            ELSE StrVal(Format(nn(1)) \o <<":">>)
        ELSE IF has(2) THEN
            IF IsRaised(nn(2)) THEN nn(2)
            ELSE StrVal(<<":">> \o Format(nn(2)))
        ELSE StrVal(<<":">>)
    ELSE IF node.t = "Subscript" THEN
        LET value == nn(1)
            slice == node_name(node.kids[2], TRUE)
        IN  \* an ImproperUseError of either part is caught and raised anew,
            \* unless naming the value for the message raises first
            IF IsRaised(value) THEN value
            ELSE IF IsRaised(slice) THEN slice
            ELSE StrVal(Format(value) \o <<"[">> \o Format(slice) \o <<"]">>)
    ELSE Raised("ImproperUseError")

(***************************************************************************)
(* The ancestors of the call node, nearest first, as executing links them  *)
(* by .parent: t is the class of the ancestor, targets its assignment      *)
(* targets (one for AnnAssign and NamedExpr), role the field of the        *)
(* ancestor that holds the node below it.                                  *)
(***************************************************************************)
Anc(t, targets, role) == [t |-> t, targets |-> targets, role |-> role]

ASSIGN_TYPES == {"Assign", "AnnAssign", "NamedExpr"}

\* A variant that stops at the first parent of a strict search before looking
\* at it.
LookforStrictBreaksFirst(parents, strict_) ==
    IF strict_ THEN 0
    ELSE IF \E k \in 1..Len(parents) : parents[k].t \in ASSIGN_TYPES
      THEN CHOOSE k \in 1..Len(parents) :
              /\ parents[k].t \in ASSIGN_TYPES
              /\ \A m \in 1..(k - 1) : parents[m].t \notin ASSIGN_TYPES
    ELSE 0

RECURSIVE LookforFrom(_, _, _)
\* The loop of lookfor_parent_assign from the k-th ancestor on: the index of
\* the assignment found, 0 for None.
LookforFrom(k, parents, strict_) ==
    IF k > Len(parents) THEN 0
    ELSE IF parents[k].t \in ASSIGN_TYPES THEN k
    ELSE IF strict_ THEN 0
    ELSE LookforFrom(k + 1, parents, strict_)

\* A variant that climbs the whole chain also in a strict search.
LookforStrictClimbs(parents, strict_) == LookforFrom(1, parents, FALSE)

lookfor_parent_assign(parents, strict_) == LookforFrom(1, parents, strict_)

\* A variant that never raises: None whenever the node is missing.
GetNodeByFrameSilent(env_, raise_exc_) ==
    IF env_ = "node" THEN "node" ELSE "None"

\* get_node_by_frame: the executing node when there is one; with source text
\* and tree but no node (env_ "ambiguous") VarnameRetrievingError if raise_exc,
\* and None in every other case.
get_node_by_frame(env_, raise_exc_) ==
    IF env_ = "node" THEN "node"
    ELSE IF env_ = "ambiguous" /\ raise_exc_ THEN "VarnameRetrievingError"
    ELSE "None"

\* What get_node hands to varname: the call node, None, or the exception of
\* get_node_by_frame.  A VarnameRetrievingError of get_frame is swallowed.
get_node(env_, raise_exc_) ==
    IF env_ = "noframe" THEN "None"
    ELSE get_node_by_frame(env_, raise_exc_)

Returned(val) == [kind |-> "return", exc |-> "", val |-> val]
Raises(exc) == [kind |-> "raise", exc |-> exc, val |-> NoneVal]

\* A variant that takes the leftmost target of a chained assignment.
LeftmostTarget(node) == node.targets[1]

\* node.targets[-1] of an Assign, node.target of an AnnAssign or NamedExpr.
AssignTarget(node) ==
    IF node.t = "Assign" THEN PyAt(node.targets, -1) ELSE node.targets[1]

\* A variant that hands back a lone name unwrapped.
NamesUnwrapped(names) == names

\* names = node_name(target), a lone str wrapped into a 1-tuple.
NamesTuple(names) == IF names.k = "tuple" THEN names ELSE TupVal(<<names>>)

\* varname from the assignment on: the result of the call.
VarnameOfAssign(node, multi_vars_) ==
    LET names == node_name(AssignTarget(node), FALSE)
        tup == NamesTuple(names)
    IN IF IsRaised(names) THEN Raises(names.k)
       ELSE IF multi_vars_ THEN Returned(tup)
       ELSE IF tup.k = "tuple" /\ Len(tup.e) > 1 THEN Raises("ImproperUseError")
       ELSE IF tup.k = "tuple" /\ Len(tup.e) = 0 THEN Raises("IndexError")
       ELSE IF tup.k = "tuple" THEN Returned(tup.e[1])
       ELSE Returned(tup)

MultiTargetAssignmentWarning(node) ==
    IF node.t = "Assign" /\ Len(node.targets) > 1
      THEN <<"MultiTargetAssignmentWarning">>
    ELSE <<>>

(***************************************************************************)
(* The calls of varname explored.  A site is the statement around the call *)
(* node: its ancestors and the number of source lines the call expression  *)
(* spans.  Targets are those Python's grammar admits on the left of an     *)
(* assignment.                                                             *)
(***************************************************************************)
Site(parents, span) == [parents |-> parents, span |-> span]

Module == Anc("Module", <<>>, "body")

VarnameCall(s, e, m, r, st) ==
    [site |-> s, env |-> e, multi_vars |-> m, raise_exc |-> r, strict |-> st]

PlainTargets == {Name("a"), Name("b"), Name("c")}

\* Targets named by their source text, and targets node_name refuses.
TextTargets ==
    { Attribute(Name("obj"), "attr"),
      Attribute(Attribute(Name("obj"), "attr"), "d"),
      Subscript(Name("x"), Constant("0")),
      Subscript(Name("x"), Constant("k")),
      Subscript(Name("x"), Name("a")),
      Subscript(Attribute(Name("obj"), "attr"), Constant("1")),
      Subscript(Name("x"), Tuple(<<Constant("0"), Name("a")>>)),
      Subscript(Name("x"), Tuple(<<Constant("0")>>)),
      Subscript(Name("x"), List(<<Name("a"), Name("b")>>)),
      Subscript(Name("x"), List(<<Name("a"), Tuple(<<Name("b")>>)>>)),
      Subscript(Name("x"), Slice(Constant("0"), Constant("1"), Name("a"))),
      Subscript(Name("x"), Slice(Constant("0"), Constant("1"), Absent)),
      Subscript(Name("x"), Slice(Constant("0"), Absent, Absent)),
      Subscript(Name("x"), Slice(Absent, Constant("1"), Absent)),
      Subscript(Name("x"), Slice(Absent, Absent, Constant("1"))),
      Subscript(Name("x"), Slice(Absent, Absent, Absent)),
      Subscript(Name("x"), BinOp(Name("a"), Constant("1"))),
      Subscript(Call(Name("g")), Constant("0")),
      Attribute(Call(Name("g")), "d"),
      Attribute(Subscript(Name("x"), BinOp(Name("a"), Constant("1"))), "d") }

\* The elements of a destructuring target.
Elems ==
    { Name("a"), Starred(Name("c")), Attribute(Call(Name("g")), "d"),
      Tuple(<<Name("b")>>), Tuple(<<Name("b"), Name("c")>>),
      List(<<Name("c")>>) }

SeqTargets ==
    UNION { {Tuple(es), List(es)} : es \in SeqsOfLen(Elems, 0, MaxElts) }

ChainTargets ==
    { Name("a"), Name("b"), Attribute(Name("obj"), "attr"),
      Tuple(<<Name("a"), Name("b")>>) }

\* x = f(...), laid out over one or more lines, in every environment.
PlainCalls ==
    { VarnameCall(Site(<<Anc("Assign", <<t>>, "value"), Module>>, n), e, m, r, st) :
        t \in PlainTargets, n \in 1..MaxLines,
        e \in {"node", "noframe", "nosource", "ambiguous"},
        m \in BOOLEAN, r \in BOOLEAN, st \in BOOLEAN }

\* target = f(...) for the other targets.
TargetCalls ==
    { VarnameCall(Site(<<Anc("Assign", <<t>>, "value"), Module>>, 1), "node",
                  m, r, st) :
        t \in TextTargets \cup SeqTargets,
        m \in BOOLEAN, r \in BOOLEAN, st \in BOOLEAN }

\* t1 = t2 = ... = f(...).
ChainCalls ==
    { VarnameCall(Site(<<Anc("Assign", ts, "value"), Module>>, 1), "node",
                  m, r, st) :
        ts \in SeqsOfLen(ChainTargets, 2, MaxTargets),
        m \in BOOLEAN, r \in BOOLEAN, st \in BOOLEAN }

\* The call elsewhere: in an annotated assignment (as value or annotation), in
\* an assignment expression, below the assigned value, or in no assignment.
OtherParents ==
    { <<Anc("AnnAssign", <<Name("a")>>, "value"), Module>>,
      <<Anc("AnnAssign", <<Name("a")>>, "annotation"), Module>>,
      <<Anc("AnnAssign", <<Attribute(Name("obj"), "attr")>>, "value"), Module>>,
      <<Anc("NamedExpr", <<Name("a")>>, "value"), Anc("Expr", <<>>, "value"),
        Module>>,
      <<Anc("NamedExpr", <<Name("a")>>, "value"),
        Anc("Assign", <<Name("b")>>, "value"), Module>>,
      <<Anc("List", <<>>, "elts"), Anc("Assign", <<Name("a")>>, "value"),
        Module>>,
      <<Anc("Attribute", <<>>, "value"), Anc("Assign", <<Name("a")>>, "value"),
        Module>>,
      <<Anc("Call", <<>>, "args"), Anc("Attribute", <<>>, "value"),
        Anc("Assign", <<Name("a"), Name("b")>>, "value"), Module>>,
      <<Anc("Subscript", <<>>, "value"),
        Anc("Assign", <<Subscript(Call(Name("f")), Constant("0"))>>,
            "targets"),
        Module>>,
      <<Anc("Expr", <<>>, "value"), Module>>,
      <<Anc("Call", <<>>, "args"), Anc("Expr", <<>>, "value"), Module>>,
      <<Anc("Return", <<>>, "value"), Anc("FunctionDef", <<>>, "body"),
        Module>> }

OtherCalls ==
    { VarnameCall(Site(ps, 1), "node", m, r, st) :
        ps \in OtherParents, m \in BOOLEAN, r \in BOOLEAN, st \in BOOLEAN }

VarnameCalls == PlainCalls \cup TargetCalls \cup ChainCalls \cup OtherCalls

\* No walk of get_frame is under way in the state variables of the walker.
WalkIdle ==
    /\ frames = <<>>
    /\ ignore = <<>>
    /\ N = 1
    /\ debug = FALSE
    /\ pc = "idle"
    /\ ignore_list = <<>>
    /\ markers = {}
    /\ i = 0
    /\ frame_no = 0
    /\ outcome = Pending
    /\ log = <<>>
    /\ visits = <<>>

VarnameInit ==
    /\ WalkIdle
    /\ ArgnameIdle
    /\ OthersIdle
    /\ \E c \in VarnameCalls :
        /\ site = c.site
        /\ env = c.env
        /\ multi_vars = c.multi_vars
        /\ raise_exc = c.raise_exc
        /\ strict = c.strict
    /\ vpc = "call"
    /\ vresult = [kind |-> "pending", exc |-> "", val |-> NoneVal]
    /\ warnings = <<>>
    /\ refnode = "pending"

(***************************************************************************)
(* varname, first half: refnode = get_node(frame + 1, ignore, raise_exc);  *)
(* without a node the call raises VarnameRetrievingError or returns None.  *)
(***************************************************************************)
GetNode ==
    /\ vpc = "call"
    /\ LET node == get_node(env, raise_exc)
       IN /\ refnode' = node
          /\ IF node = "node"
             THEN /\ vpc' = "assign"
                  /\ UNCHANGED vresult
             ELSE /\ vpc' = "done"
                  /\ vresult' = IF node = "VarnameRetrievingError" \/ raise_exc
                                  THEN Raises("VarnameRetrievingError")
                                ELSE Returned(NoneVal)
    /\ UNCHANGED <<site, env, multi_vars, raise_exc, strict, warnings>>
    /\ UNCHANGED wvars
    /\ UNCHANGED avars
    /\ UNCHANGED xvars

(***************************************************************************)
(* varname, second half: find the assignment above the call node, warn of  *)
(* a chained assignment, name the target, return one name or the tuple.    *)
(***************************************************************************)
Resolve ==
    /\ vpc = "assign"
    /\ LET k == lookfor_parent_assign(site.parents, strict)
       IN IF k = 0
            THEN /\ vresult' = Raises("ImproperUseError")
                 /\ UNCHANGED warnings
          ELSE /\ warnings' = warnings
                              \o MultiTargetAssignmentWarning(site.parents[k])
               /\ vresult' = VarnameOfAssign(site.parents[k], multi_vars)
    /\ vpc' = "done"
    /\ UNCHANGED <<site, env, multi_vars, raise_exc, strict, refnode>>
    /\ UNCHANGED wvars
    /\ UNCHANGED avars
    /\ UNCHANGED xvars

VarnameNext == GetNode \/ Resolve

SpecVarname == VarnameInit /\ [][VarnameNext]_vars

(***************************************************************************)
(* Properties of the frame walk.                                           *)
(***************************************************************************)
CountedVisits == {k \in 1..Len(visits) : visits[k].counted}

\* No rule of the list matches at frame index idx.
NoRuleMatches(idx) ==
    \A k \in 1..Len(ignore_list) :
        ~Match(ignore_list[k], idx, frames, markers).matched

IsDecorated(k) == ignore_list[k].kind = "IgnoreDecorated"

C3_ExhaustedRaises ==
    (pc = "done" /\ i >= Len(frames)) => outcome.kind = "VarnameRetrievingError"

(***************************************************************************)
(* Module names as dotted paths.                                           *)
(***************************************************************************)
RECURSIVE SplitDots(_, _, _)
SplitDots(s, cur, acc) ==
    IF s = <<>> THEN Append(acc, cur)
    ELSE IF Head(s) = "." THEN SplitDots(Tail(s), <<>>, Append(acc, cur))
    ELSE SplitDots(Tail(s), Append(cur, Head(s)), acc)

Components(name) == SplitDots(name, <<>>, <<>>)

\* child is parent or a module nested, at any depth, inside package parent.
IsSameOrSubmodule(child, parent) ==
    LET c == Components(child)
        p == Components(parent)
    IN Len(p) <= Len(c) /\ SubSeq(c, 1, Len(p)) = p

\* C4: IgnoreModule(m) matches a frame whose module is m or a sub-module of
\* m at any depth and no frame of another module, whatever the other
\* module's name starts with and whatever function the frame runs; a frame
\* with no module is matched only when its namespace is m's.
C4_ModuleMatch ==
    \A k \in 1..Len(visits) :
        \A j \in 1..Len(visits[k].tried) :
            LET f == frames[visits[k].idx + 1]
                r == ignore_list[j]
            IN r.kind = "IgnoreModule" =>
                  IF f.mod # NoModule
                  THEN visits[k].tried[j] <=> IsSameOrSubmodule(f.mod, r.mod)
                  ELSE visits[k].tried[j] => f.globals = r.mod

\* C4 witness: a frame of p.s was passed over by IgnoreModule(p) and the
\* frame of module ps, running a function of the same name, was returned.
C4_Witness ==
    /\ outcome.kind = "frame"
    /\ frames[outcome.idx + 1].mod = ModPx
    /\ \E k \in 1..Len(visits) :
          /\ visits[k].rule > NDefaults
          /\ ignore_list[visits[k].rule].kind = "IgnoreModule"
          /\ ignore_list[visits[k].rule].mod = ModP
          /\ frames[visits[k].idx + 1].mod = ModPS
          /\ frames[visits[k].idx + 1].code = frames[outcome.idx + 1].code

\* The source a scoped qualified-name element is about.
ScopeFile(e) ==
    IF e.ty = "str_str" THEN e.path
    ELSE IF e.mod = ModExec THEN ExecFile
    ELSE ModFile(e.mod)

IsAmbiguousElem(e) ==
    /\ e.ty \in {"module_str", "str_str"}
    /\ ~HasWildcard(e.pat)
    /\ Count(SourceQualnames(ScopeFile(e)), e.pat) > 1

\* The rule built for the k-th element of the caller's list was asked to
\* match a frame of its scope that bears its name.
ScopeTried(k) ==
    \E j \in 1..Len(visits) :
        /\ visits[j].rule = NDefaults + k \/ Len(visits[j].tried) >= NDefaults + k
        /\ frames[visits[j].idx + 1].file = ScopeFile(ignore[k])
        /\ frames[visits[j].idx + 1].qual = ignore[k].pat

\* C5 (as claimed): a call whose ignore list holds a scoped qualified-name
\* element (module or file path) with a non-wildcard name that more than one
\* definition of the scope bears ends with QualnameNonUniqueError, at the
\* latest when the rule has been matched against a frame of its scope.
C5_AmbiguousQualnameRaises ==
    \A k \in 1..Len(ignore) :
        (pc = "done" /\ IsAmbiguousElem(ignore[k]) /\ ScopeTried(k))
            => outcome.kind = "QualnameNonUniqueError"

\* C6 (as claimed): the default standard-library rule, the first of the
\* list, matches a frame whose file lies under the standard-library
\* directory, but no frame whose file lies in the third-party tree nested
\* inside that directory.
C6_SitePackagesNotIgnored ==
    \A k \in 1..Len(visits) :
        LET file == frames[visits[k].idx + 1].file
        IN IF StartsWith(file, SitePackagesDir \o <<Sep>>)
           THEN visits[k].rule # 1
           ELSE StartsWith(file, StdlibDir \o <<Sep>>) => visits[k].rule = 1

(***************************************************************************)
(* will(): the attribute read right after the call.  The ancestors of a    *)
(* site are here the syntax nodes themselves, the call node being the      *)
(* value of its parent.                                                    *)
(***************************************************************************)
TheCall == Call(Name("f"))

AttrNames == {"do", "x", "attr", "permit"}

\* inst.method().attr as a statement, as the callee of a further call, and as
\* the value of an assignment.
AttributeParents ==
    UNION { { <<Attribute(TheCall, n), Node("Expr", "", <<>>)>>,
              <<Attribute(TheCall, n), Node("Call", "", <<>>),
                Node("Expr", "", <<>>)>>,
              <<Attribute(TheCall, n), Node("Assign", "", <<Name("a")>>)>> } :
            n \in AttrNames }

\* The call not followed by an attribute access.
PlainParents ==
    { <<Node("Expr", "", <<>>)>>,
      <<Node("Assign", "", <<Name("a")>>)>>,
      <<Node("Return", "", <<>>), Node("FunctionDef", "", <<>>)>>,
      <<Node("Call", "", <<TheCall>>), Node("Expr", "", <<>>)>>,
      <<Call(TheCall), Attribute(Call(TheCall), "do"), Node("Expr", "", <<>>)>>,
      <<Subscript(TheCall, Constant("0")), Attribute(Subscript(TheCall,
            Constant("0")), "x"), Node("Expr", "", <<>>)>>,
      <<BinOp(TheCall, Name("a")), Node("Expr", "", <<>>)>>,
      <<Starred(TheCall), Node("Call", "", <<>>), Node("Expr", "", <<>>)>> }

WillCalls ==
    { VarnameCall(Site(ps, n), e, FALSE, r, FALSE) :
        ps \in AttributeParents \cup PlainParents, n \in 1..MaxLines,
        e \in {"node", "noframe", "nosource", "ambiguous"}, r \in BOOLEAN }

WillInit ==
    /\ WalkIdle
    /\ ArgnameIdle
    /\ OthersIdle
    /\ \E c \in WillCalls :
        /\ site = c.site
        /\ env = c.env
        /\ multi_vars = c.multi_vars
        /\ raise_exc = c.raise_exc
        /\ strict = c.strict
    /\ vpc = "will"
    /\ vresult = [kind |-> "pending", exc |-> "", val |-> NoneVal]
    /\ warnings = <<>>
    /\ refnode = "pending"

\* A variant that raises for a parent that is no attribute access whatever
\* raise_exc is.
WillAlwaysRaises(parent, raise_exc_) ==
    IF parent.t # "Attribute" THEN Raises("ImproperUseError")
    ELSE Returned(StrVal(<<parent.id>>))

\* will from the parent of the call node on.
WillOfParent(parent, raise_exc_) ==
    IF parent.t # "Attribute"
      THEN IF raise_exc_ THEN Raises("ImproperUseError")
           ELSE Returned(NoneVal)
    ELSE Returned(StrVal(<<parent.id>>))

\* will, first half: node = get_node(frame + 1, raise_exc=raise_exc).
WillGetNode ==
    /\ vpc = "will"
    /\ LET node == get_node(env, raise_exc)
       IN /\ refnode' = node
          /\ IF node = "node"
             THEN /\ vpc' = "parent"
                  /\ UNCHANGED vresult
             ELSE /\ vpc' = "done"
                  /\ vresult' = IF node = "VarnameRetrievingError" \/ raise_exc
                                  THEN Raises("VarnameRetrievingError")
                                ELSE Returned(NoneVal)
    /\ UNCHANGED <<site, env, multi_vars, raise_exc, strict, warnings>>
    /\ UNCHANGED wvars
    /\ UNCHANGED avars
    /\ UNCHANGED xvars

\* will, second half: node = node.parent, which must be an ast.Attribute.
WillParent ==
    /\ vpc = "parent"
    /\ vresult' = WillOfParent(site.parents[1], raise_exc)
    /\ vpc' = "done"
    /\ UNCHANGED <<site, env, multi_vars, raise_exc, strict, warnings, refnode>>
    /\ UNCHANGED wvars
    /\ UNCHANGED avars
    /\ UNCHANGED xvars

WillNext == WillGetNode \/ WillParent

SpecWill == WillInit /\ [][WillNext]_vars

(***************************************************************************)
(* argname(): the sources of the arguments of the call of the callee.  An  *)
(* identifier is a str whose characters the code may take apart, so the    *)
(* str of an identifier is the sequence of its characters.                 *)
(***************************************************************************)
Chars(id) ==
    IF id = "zz" THEN <<"z", "z">>
    ELSE IF id = "cd" THEN <<"c", "d">>
    ELSE <<id>>

\* A raw syntax node as a value, and a mapping of keyword names to values.
AstVal(node) == [k |-> "ast", s |-> <<node.t>>, e |-> <<>>]
DictVal(keys, vals) == [k |-> "dict", s |-> keys, e |-> vals]

RECURSIVE SourceText(_)
\* source.asttokens().get_text(node): the text of the expression as written.
SourceText(node) ==
    IF node.t = "Name" THEN Chars(node.id)
    ELSE IF node.t = "Constant" THEN ReprConstant(node.id)
    ELSE IF node.t = "Attribute"
      THEN SourceText(node.kids[1]) \o <<".">> \o Chars(node.id)
    ELSE IF node.t = "BinOp"
      THEN SourceText(node.kids[1]) \o <<" ", node.id, " ">>
           \o SourceText(node.kids[2])
    ELSE IF node.t = "Starred" THEN <<"*">> \o SourceText(node.kids[1])
    ELSE IF node.t = "Call" THEN SourceText(node.kids[1]) \o <<"(", ")">>
    ELSE <<node.t>>

argnode_source(node, vars_only_) ==
    IF node.t = "Constant" THEN StrVal(ReprConstant(node.id))
    ELSE IF vars_only_
      THEN IF node.t = "Name" THEN StrVal(Chars(node.id))
           ELSE IF node.t = "Attribute" THEN StrVal(Chars(node.id))
           ELSE AstVal(node)
    ELSE StrVal(SourceText(node))

\* A parameter of the callee's signature and a keyword of the call node
\* (arg = "" for the None of **mapping).
Param(name, kind) == [name |-> name, kind |-> kind]
Keyword(arg, value) == [arg |-> arg, value |-> value]

ParamsOfKind(sig, kinds) ==
    SelectSeq(sig, LAMBDA p : p.kind \in kinds)

SeqToSet(seq) == {seq[j] : j \in 1..Len(seq)}

\* signature.bind_partial(*arg_sources, **kwarg_sources).arguments as a
\* function from parameter names to values, or the TypeError it raises.
BindPartial(sig, arg_sources, kwarg_names, kwarg_vals) ==
    LET pos == ParamsOfKind(sig, {"POSITIONAL_OR_KEYWORD"})
        kwonly == ParamsOfKind(sig, {"KEYWORD_ONLY"})
        varpos == ParamsOfKind(sig, {"VAR_POSITIONAL"})
        varkw == ParamsOfKind(sig, {"VAR_KEYWORD"})
        n == Len(arg_sources)
        nbound == IF n < Len(pos) THEN n ELSE Len(pos)
        byPos == {pos[j].name : j \in 1..nbound}
        named == {pos[j].name : j \in 1..Len(pos)}
                 \cup {kwonly[j].name : j \in 1..Len(kwonly)}
        kws == 1..Len(kwarg_names)
        direct == {j \in kws : kwarg_names[j] \in named}
        extra == SelectSeq([j \in kws |-> j], LAMBDA j : j \notin direct)
        dom == byPos
               \cup {kwarg_names[j] : j \in direct}
               \cup (IF n > Len(pos) THEN {varpos[1].name} ELSE {})
               \cup (IF extra # <<>> THEN {varkw[1].name} ELSE {})
        failed == \/ n > Len(pos) /\ varpos = <<>>
                  \/ \E j \in direct : kwarg_names[j] \in byPos
                  \/ extra # <<>> /\ varkw = <<>>
    IN [ exc |-> IF failed THEN "TypeError" ELSE "",
         arguments |->
           [name \in (IF failed THEN {} ELSE dom) |->
               IF name \in byPos
                 THEN arg_sources[CHOOSE j \in 1..nbound : pos[j].name = name]
               ELSE IF \E j \in direct : kwarg_names[j] = name
                 THEN kwarg_vals[CHOOSE j \in direct : kwarg_names[j] = name]
               ELSE IF n > Len(pos) /\ varpos[1].name = name
                 THEN TupVal(SubSeq(arg_sources, Len(pos) + 1, n))
               ELSE DictVal([j \in 1..Len(extra) |-> kwarg_names[extra[j]]],
                            [j \in 1..Len(extra) |-> kwarg_vals[extra[j]]])] ]

\* A variant that leaves an unsupplied variadic parameter unbound.
NoDefaults(sig, bound) == bound

\* argument_sources.setdefault(name, default) for the variadic parameters.
SetDefaults(sig, bound) ==
    LET varpos == ParamsOfKind(sig, {"VAR_POSITIONAL"})
        varkw == ParamsOfKind(sig, {"VAR_KEYWORD"})
        dom == DOMAIN bound \cup {varpos[j].name : j \in 1..Len(varpos)}
                            \cup {varkw[j].name : j \in 1..Len(varkw)}
    IN [name \in dom |->
          IF name \in DOMAIN bound THEN bound[name]
          ELSE IF \E j \in 1..Len(varpos) : varpos[j].name = name
            THEN TupVal(<<>>)
          ELSE DictVal(<<>>, <<>>)]

get_argument_sources(sig, args, keywords, vars_only_) ==
    LET arg_sources == [j \in 1..Len(args) |->
                           argnode_source(args[j], vars_only_)]
        kept == SelectSeq(keywords, LAMBDA kw : kw.arg # "")
        bound == BindPartial(sig, arg_sources,
                    [j \in 1..Len(kept) |-> kept[j].arg],
                    [j \in 1..Len(kept) |->
                        argnode_source(kept[j].value, vars_only_)])
    IN [ exc |-> bound.exc,
         arguments |-> IF bound.exc # "" THEN bound.arguments
                       ELSE SetDefaults(sig, bound.arguments) ]

(***************************************************************************)
(* A requested name is a str the code takes apart with two regular         *)
(* expressions: it is a sequence of tokens, a token being a run of word    *)
(* characters or one character that is none.                               *)
(***************************************************************************)
Punct == {"[", "]", "*", "\"", "+", " ", "-"}
IsWord(tok) == tok \notin Punct
DigitTokens == {"0", "1", "2", "5"}

\* The number of word tokens a requested name starts with.
WordPrefixLen(farg) ==
    IF \A j \in 1..Len(farg) : IsWord(farg[j]) THEN Len(farg)
    ELSE (CHOOSE j \in 1..Len(farg) :
              /\ ~IsWord(farg[j])
              /\ \A m \in 1..(j - 1) : IsWord(farg[m])) - 1

\* re.match(r"^([\w_]+)\[(.+)\]$", farg)
MatchSubscript(farg) ==
    LET n == WordPrefixLen(farg)
    IN /\ n >= 1
       /\ Len(farg) >= n + 3
       /\ farg[n + 1] = "["
       /\ farg[Len(farg)] = "]"

\* re.match(r"^\*([\w_]+)$", farg)
MatchStar(farg) ==
    /\ Len(farg) >= 2
    /\ farg[1] = "*"
    /\ \A j \in 2..Len(farg) : IsWord(farg[j])

\* str.isdigit() and int() of a subscript.
IsDigit(sub) == sub # <<>> /\ \A j \in 1..Len(sub) : sub[j] \in DigitTokens

DigitValue(tok) ==
    IF tok = "0" THEN 0 ELSE IF tok = "1" THEN 1 ELSE IF tok = "2" THEN 2 ELSE 5

RECURSIVE IntOf(_)
IntOf(sub) ==
    IF sub = <<>> THEN 0
    ELSE 10 * IntOf(SubSeq(sub, 1, Len(sub) - 1)) + DigitValue(sub[Len(sub)])

\* farg_name, farg_subscript (None, an int or a str) and whether the name is
\* starred, as the head of the loop body sets them.
ParseFarg(farg) ==
    LET n == WordPrefixLen(farg)
        sub == SubSeq(farg, n + 2, Len(farg) - 1)
    IN IF MatchSubscript(farg)
         THEN [ name |-> SubSeq(farg, 1, n),
                sub |-> IF IsDigit(sub) THEN "int" ELSE "str",
                index |-> IF IsDigit(sub) THEN IntOf(sub) ELSE 0,
                key |-> IF IsDigit(sub) THEN <<>> ELSE sub,
                star |-> FALSE ]
       ELSE IF MatchStar(farg)
         THEN [ name |-> Tail(farg), sub |-> "None", index |-> 0,
                key |-> <<>>, star |-> TRUE ]
       ELSE [ name |-> farg, sub |-> "None", index |-> 0, key |-> <<>>,
              star |-> FALSE ]

\* list(source): the items out.extend(source) appends.
Items(source) ==
    IF source.k = "tuple" THEN source.e
    ELSE IF source.k = "dict"
      THEN [j \in 1..Len(source.s) |-> StrVal(Chars(source.s[j]))]
    ELSE [j \in 1..Len(source.s) |-> StrVal(<<source.s[j]>>)]

\* The position of a key, written as tokens, among the keys of a mapping;
\* 0 when the mapping does not hold it.
KeyIndex(source, key) ==
    IF \E j \in 1..Len(source.s) : Chars(source.s[j]) = key
      THEN CHOOSE j \in 1..Len(source.s) : Chars(source.s[j]) = key
    ELSE 0

\* farg_star after the head of the loop body: set by a starred name and
\* never cleared.
FargStar(was, p) == was \/ p.star

\* A variant that lets a str subscript through to any source.
SubscriptKindErrorIntOnly(source, p) == p.sub = "int" /\ source.k # "tuple"

\* An int subscript needs a tuple, a str subscript a dict.
SubscriptKindError(source, p) ==
    \/ p.sub = "int" /\ source.k # "tuple"
    \/ p.sub = "str" /\ source.k # "dict"

\* source[farg_subscript] of a tuple or a mapping.
SubscriptOf(source, p) ==
    IF p.sub = "int"
      THEN IF p.index >= Len(source.e)
             THEN [exc |-> "IndexError", val |-> NoneVal]
           ELSE [exc |-> "", val |-> source.e[p.index + 1]]
    ELSE IF KeyIndex(source, p.key) = 0
      THEN [exc |-> "KeyError", val |-> NoneVal]
    ELSE [exc |-> "", val |-> source.e[KeyIndex(source, p.key)]]

\* One pass of the for loop of argname: the exception it raises, if any, and
\* the new out and farg_star.
LoopBody(farg, sources, out_, star_) ==
    LET p == ParseFarg(farg)
        star == FargStar(star_, p)
        known == Len(p.name) = 1 /\ p.name[1] \in DOMAIN sources
        source == sources[p.name[1]]
        raise(exc) == [exc |-> exc, out |-> out_, star |-> star]
    IN IF ~known THEN raise("ImproperUseError")
       ELSE IF source.k = "ast" THEN raise("ImproperUseError")
       ELSE IF SubscriptKindError(source, p) THEN raise("ImproperUseError")
       ELSE IF p.sub # "None"
         THEN IF SubscriptOf(source, p).exc # ""
                THEN raise(SubscriptOf(source, p).exc)
              ELSE [exc |-> "", out |-> Append(out_, SubscriptOf(source, p).val),
                    star |-> star]
       ELSE IF star
         THEN [exc |-> "", out |-> out_ \o Items(source), star |-> star]
       ELSE [exc |-> "", out |-> Append(out_, source), star |-> star]

(***************************************************************************)
(* The calls of argname explored.                                          *)
(***************************************************************************)
ArgnameCall(sig, args, keywords, fargs, vars_only, e) ==
    [sig |-> sig, args |-> args, keywords |-> keywords, fargs |-> fargs,
     vars_only |-> vars_only, env |-> e]

\* def func(*args, **kwargs), def func(a, *args, **kwargs),
\* def func(*args, x=1), def func(a, b, c, d=4)
Signatures ==
    { <<Param("args", "VAR_POSITIONAL"), Param("kwargs", "VAR_KEYWORD")>>,
      <<Param("a", "POSITIONAL_OR_KEYWORD"), Param("args", "VAR_POSITIONAL"),
        Param("kwargs", "VAR_KEYWORD")>>,
      <<Param("args", "VAR_POSITIONAL"), Param("x", "KEYWORD_ONLY")>>,
      <<Param("a", "POSITIONAL_OR_KEYWORD"), Param("b", "POSITIONAL_OR_KEYWORD"),
        Param("c", "POSITIONAL_OR_KEYWORD"), Param("d", "POSITIONAL_OR_KEYWORD")>> }

OnePlusTwo == BinOp(Constant("1"), Constant("2"))

\* The arguments of the call node: func(x, y, kw=z), func(), func(x),
\* func(a, b, x=cd), func(y, x=x), func(x, 1 + 2), func(x, kw=1 + 2),
\* func(1, o.b, zz), func(*x, **y).
CallArgs ==
    { [args |-> <<Name("x"), Name("y")>>, keywords |-> <<Keyword("kw", Name("z"))>>],
      [args |-> <<>>, keywords |-> <<>>],
      [args |-> <<Name("x")>>, keywords |-> <<>>],
      [args |-> <<Name("a"), Name("b")>>, keywords |-> <<Keyword("x", Name("cd"))>>],
      [args |-> <<Name("y")>>, keywords |-> <<Keyword("x", Name("x"))>>],
      [args |-> <<Name("x"), OnePlusTwo>>, keywords |-> <<>>],
      [args |-> <<Name("x")>>, keywords |-> <<Keyword("kw", OnePlusTwo)>>],
      [args |-> <<Constant("1"), Attribute(Name("o"), "b"), Name("zz")>>,
       keywords |-> <<>>],
      [args |-> <<Starred(Name("x"))>>, keywords |-> <<Keyword("", Name("y"))>>] }

\* Requested names, one per form the loop tells apart.
Fargs ==
    { <<"args">>, <<"kwargs">>, <<"a">>, <<"x">>, <<"m">>, <<"d">>,
      <<"*", "args">>, <<"*", "kwargs">>, <<"*", "x">>,
      <<"args", "[", "0", "]">>, <<"args", "[", "1", "]">>,
      <<"args", "[", "5", "]">>, <<"args", "[", "1", " ", "+", " ", "1", "]">>,
      <<"args", "[", "x", "]">>, <<"args", "[", "-", "1", "]">>,
      <<"kwargs", "[", "kw", "]">>, <<"kwargs", "[", "\"", "kw", "\"", "]">>,
      <<"kwargs", "[", "x", "]">>, <<"kwargs", "[", "0", "]">>,
      <<"kwargs", "[", "1", " ", "+", " ", "1", "]">>,
      <<"a", "[", "0", "]">>, <<"a", "[", "\"", "e", "\"", "]">>,
      <<"a", "[", "e", "]">>, <<"m", "[", "0", "]">>,
      <<"[", "args", "]", "[", "0", "]">> }

\* Names asked for together, in every order.
CoreFargs == { <<"args">>, <<"kwargs">>, <<"x">>, <<"a">>, <<"*", "args">> }

\* argname(name) for every form of name, callee and call.
SingleCalls ==
    { ArgnameCall(sig, c.args, c.keywords, <<f>>, TRUE, "node") :
        sig \in Signatures, c \in CallArgs, f \in Fargs }

\* argname(name, *more_names).
ManyCalls ==
    { ArgnameCall(sig, c.args, c.keywords, fs, TRUE, "node") :
        sig \in Signatures, c \in CallArgs,
        fs \in SeqsOfLen(CoreFargs, 2, MaxFargs) }

\* argname with vars_only=False, and where the call node cannot be had.
OtherArgnameCalls ==
    { ArgnameCall(sig, c.args, c.keywords, <<f>>, v, e) :
        sig \in Signatures, c \in CallArgs,
        f \in {<<"args">>, <<"kwargs">>, <<"a">>, <<"*", "args">>},
        v \in BOOLEAN, e \in {"node", "noframe", "nosource", "ambiguous"} }

ArgnameCalls == SingleCalls \cup ManyCalls \cup OtherArgnameCalls

ArgnameInit ==
    /\ WalkIdle
    /\ VarnameIdle
    /\ OthersIdle
    /\ acall \in ArgnameCalls
    /\ apc = "call"
    /\ argument_sources = <<>>
    /\ out_list = <<>>
    /\ farg_star = FALSE
    /\ fi = 0
    /\ aresult = [kind |-> "pending", exc |-> "", val |-> NoneVal]

(***************************************************************************)
(* argname up to the loop: the frame and the call node of the callee (any  *)
(* failure is a VarnameRetrievingError), then get_argument_sources, whose  *)
(* exceptions are raised anew as VarnameRetrievingError.                   *)
(***************************************************************************)
ArgnameSources ==
    /\ apc = "call"
    /\ LET srcs == get_argument_sources(acall.sig, acall.args, acall.keywords,
                                        acall.vars_only)
       IN IF acall.env # "node" \/ srcs.exc # ""
            THEN /\ apc' = "done"
                 /\ aresult' = Raises("VarnameRetrievingError")
                 /\ UNCHANGED argument_sources
          ELSE /\ apc' = "loop"
               /\ argument_sources' = srcs.arguments
               /\ UNCHANGED aresult
    /\ UNCHANGED <<acall, out_list, farg_star, fi>>
    /\ UNCHANGED <<wvars, evars>>
    /\ UNCHANGED xvars

\* One pass of the loop "for farg in (arg, *more_args)".
ArgnameLoop ==
    /\ apc = "loop"
    /\ fi < Len(acall.fargs)
    /\ LET r == LoopBody(acall.fargs[fi + 1], argument_sources, out_list,
                         farg_star)
       IN /\ out_list' = r.out
          /\ farg_star' = r.star
          /\ IF r.exc # ""
               THEN apc' = "done" /\ aresult' = Raises(r.exc) /\ UNCHANGED fi
             ELSE fi' = fi + 1 /\ UNCHANGED <<apc, aresult>>
    /\ UNCHANGED <<acall, argument_sources>>
    /\ UNCHANGED <<wvars, evars>>
    /\ UNCHANGED xvars

\* The return statement: out[0] for one plain name, the tuple otherwise.
ArgnameReturn ==
    /\ apc = "loop"
    /\ fi = Len(acall.fargs)
    /\ apc' = "done"
    /\ aresult' = IF Len(acall.fargs) = 1 /\ ~farg_star
                    THEN Returned(out_list[1])
                  ELSE Returned(TupVal(out_list))
    /\ UNCHANGED <<acall, argument_sources, out_list, farg_star, fi>>
    /\ UNCHANGED <<wvars, evars>>
    /\ UNCHANGED xvars

ArgnameNext == ArgnameSources \/ ArgnameLoop \/ ArgnameReturn

SpecArgname == ArgnameInit /\ [][ArgnameNext]_vars

(***************************************************************************)
(* Claims about varname's assignment-target extraction (SpecVarname).      *)
(***************************************************************************)
\* varname has returned or raised, having found the call node.
Resolved == vpc = "done" /\ env = "node"

\* The call is the value of a plain assignment statement.
DirectAssign ==
    /\ site.parents[1].t = "Assign"
    /\ site.parents[1].role = "value"

Targets == site.parents[1].targets

\* C7: for a single-target assignment x = f(...) with x a plain name, whose
\* call node was found, varname (multi_vars off) returns 'x' and issues no
\* warning, over however many lines the call expression is laid out.
C7_SingleNameAssign ==
    (Resolved /\ DirectAssign /\ Len(Targets) = 1 /\ Targets[1].t = "Name"
       /\ ~multi_vars)
    => /\ vresult = Returned(StrVal(<<Targets[1].id>>))
       /\ warnings = <<>>

\* C7 witness: a strict call laid out over more than one line returned the
\* name of the one target.
C7_Witness ==
    /\ Resolved /\ DirectAssign /\ ~multi_vars /\ strict
    /\ site.span > 1
    /\ Targets = <<Name("a")>>
    /\ vresult = Returned(StrVal(<<"a">>))

RECURSIVE NamesOnly(_)
NamesOnly(node) ==
    \/ node.t = "Name"
    \/ /\ node.t \in {"Tuple", "List"}
       /\ \A j \in 1..Len(node.kids) : NamesOnly(node.kids[j])

\* The tuple of names with the nesting of such a target.
RECURSIVE Mirror(_)
Mirror(node) ==
    IF node.t = "Name" THEN StrVal(<<node.id>>)
    ELSE TupVal([j \in 1..Len(node.kids) |-> Mirror(node.kids[j])])

\* C9: with multi_vars=True, for a single-target assignment whose target is
\* made of plain names, varname returns a tuple with the nesting of the
\* target: a, (b, c) = f() gives ('a', ('b', 'c')), and a lone plain name x
\* gives the 1-tuple ('x',).
C9_MultiVarsMirrorsTarget ==
    (Resolved /\ DirectAssign /\ Len(Targets) = 1 /\ multi_vars
       /\ NamesOnly(Targets[1]))
    => /\ vresult.kind = "return"
       /\ vresult.val.k = "tuple"
       /\ Targets[1].t = "Name"
            => vresult.val = TupVal(<<StrVal(<<Targets[1].id>>)>>)
       /\ Targets[1].t # "Name" => vresult.val = Mirror(Targets[1])
       /\ Targets[1] = Tuple(<<Name("a"), Tuple(<<Name("b"), Name("c")>>)>>)
            => vresult.val = TupVal(<<StrVal(<<"a">>),
                                      TupVal(<<StrVal(<<"b">>),
                                               StrVal(<<"c">>)>>)>>)

\* C9 witness: a, (b, c) = f() with multi_vars=True has returned.
C9_Witness ==
    /\ Resolved /\ DirectAssign /\ multi_vars
    /\ Targets = <<Tuple(<<Name("a"), Tuple(<<Name("b"), Name("c")>>)>>)>>
    /\ vresult.kind = "return"

\* C9 witness of the other case: x = f() with multi_vars=True has returned a
\* 1-tuple.
C9_WitnessLoneName ==
    /\ Resolved /\ DirectAssign /\ multi_vars
    /\ Targets = <<Name("a")>>
    /\ vresult.kind = "return" /\ Len(vresult.val.e) = 1

\* C10 (as claimed): with multi_vars=False, a single-target assignment whose
\* target is a non-empty tuple or list, one-element ones included, makes
\* varname raise ImproperUseError, whatever raise_exc is.
C10_SequenceTargetRaises ==
    (Resolved /\ DirectAssign /\ Len(Targets) = 1 /\ ~multi_vars
       /\ Targets[1].t \in {"Tuple", "List"} /\ Len(Targets[1].kids) >= 1)
    => vresult = Raises("ImproperUseError")

\* The targets x[0] and obj.attr with their source texts.
SubscriptTarget == Subscript(Name("x"), Constant("0"))
AttributeTarget == Attribute(Name("obj"), "attr")
TargetText(t) ==
    IF t = SubscriptTarget THEN <<"x", "[", "0", "]">>
    ELSE <<"obj", ".", "attr">>

\* C11 (as claimed): for x[0] = f() and obj.attr = f(), varname returns the
\* source text of the target, 'x[0]' and 'obj.attr', and raises
\* ImproperUseError instead when called with strict=True.
C11_TextTargetStrictFails ==
    (Resolved /\ DirectAssign /\ ~multi_vars
       /\ Targets \in {<<SubscriptTarget>>, <<AttributeTarget>>})
    => IF strict THEN vresult = Raises("ImproperUseError")
       ELSE vresult = Returned(StrVal(TargetText(Targets[1])))

\* The indices of the assignment ancestors of the call node.
AssignAncestors ==
    {k \in 1..Len(site.parents) : site.parents[k].t \in ASSIGN_TYPES}

NearestAssign ==
    CHOOSE k \in AssignAncestors : \A m \in AssignAncestors : k <= m

\* varname raised for want of an assignment: ImproperUseError, and no target
\* was looked at, so no warning either.
NoAssignmentRaised ==
    vresult = Raises("ImproperUseError") /\ warnings = <<>>

\* varname went on with the k-th ancestor as the assignment.
ResolvedWith(k) ==
    /\ vresult = VarnameOfAssign(site.parents[k], multi_vars)
    /\ warnings = MultiTargetAssignmentWarning(site.parents[k])

C12_WitnessStrict ==
    /\ Resolved /\ strict
    /\ AssignAncestors # {} /\ NearestAssign = 3
    /\ NoAssignmentRaised

C13_WitnessNone ==
    /\ Resolved /\ ~raise_exc
    /\ site.parents[1].t = "Expr"
    /\ vresult = Returned(NoneVal)

\* C14 (as claimed): will, having found the call node, raises
\* ImproperUseError whenever the node's parent is no attribute access,
\* whatever raise_exc is; raise_exc=False gives None only when the node could
\* not be found.
C14_WillImproperUseNotSuppressed ==
    /\ (Resolved /\ site.parents[1].t # "Attribute")
          => vresult = Raises("ImproperUseError")
    /\ (vpc = "done" /\ env # "node" /\ ~raise_exc)
          => vresult = Returned(NoneVal)

(***************************************************************************)
(* Claims about argname (SpecArgname).                                     *)
(***************************************************************************)
\* argname has returned or raised after binding the arguments of the call.
ArgnameBound ==
    /\ apc = "done"
    /\ acall.env = "node"
    /\ get_argument_sources(acall.sig, acall.args, acall.keywords,
                            acall.vars_only).exc = ""

\* The callee is func(*args, **kwargs) or func(a, *args, **kwargs).
VariadicCallee ==
    /\ \E j \in 1..Len(acall.sig) : acall.sig[j] = Param("args", "VAR_POSITIONAL")
    /\ \E j \in 1..Len(acall.sig) : acall.sig[j] = Param("kwargs", "VAR_KEYWORD")

\* Every argument of the call is a plain name, none unpacked.
NamesPassed ==
    /\ \A j \in 1..Len(acall.args) : acall.args[j].t = "Name"
    /\ \A j \in 1..Len(acall.keywords) :
          acall.keywords[j].arg # "" /\ acall.keywords[j].value.t = "Name"

\* The names of the positional arguments left for *args, those of the keyword
\* arguments left for **kwargs.
LeadingParams ==
    Cardinality({j \in 1..Len(acall.sig) :
                    acall.sig[j].kind = "POSITIONAL_OR_KEYWORD"})

VarPositionalNames ==
    [j \in 1..(IF Len(acall.args) > LeadingParams
                 THEN Len(acall.args) - LeadingParams ELSE 0) |->
        StrVal(Chars(acall.args[LeadingParams + j].id))]

VarKeywordNames ==
    DictVal([j \in 1..Len(acall.keywords) |-> acall.keywords[j].arg],
            [j \in 1..Len(acall.keywords) |->
                StrVal(Chars(acall.keywords[j].value.id))])

\* C15: for a callee with *args and **kwargs whose call passes plain names,
\* argname('args') is the tuple of the names of the positional arguments
\* bound to args, argname('kwargs') the mapping of keyword to name, and
\* argname('args[1]') the second of the tuple; with nothing passed for them
\* they are () and {}.  For func(x, y, kw=z): ('x', 'y'), {'kw': 'z'}, 'y'.
C15_VariadicBindings ==
    (ArgnameBound /\ VariadicCallee /\ NamesPassed /\ acall.vars_only
       /\ \A j \in 1..Len(acall.keywords) : acall.keywords[j].arg # "a")
    => /\ acall.fargs = <<<<"args">>>>
            => aresult = Returned(TupVal(VarPositionalNames))
       /\ acall.fargs = <<<<"kwargs">>>> => aresult = Returned(VarKeywordNames)
       /\ (acall.fargs = <<<<"args", "[", "1", "]">>>>
             /\ Len(VarPositionalNames) >= 2)
            => aresult = Returned(VarPositionalNames[2])
       /\ (acall.args = <<>> /\ acall.fargs = <<<<"args">>>>)
            => aresult = Returned(TupVal(<<>>))
       /\ (acall.keywords = <<>> /\ acall.fargs = <<<<"kwargs">>>>)
            => aresult = Returned(DictVal(<<>>, <<>>))
       /\ (LeadingParams = 0 /\ acall.args = <<Name("x"), Name("y")>>
             /\ acall.keywords = <<Keyword("kw", Name("z"))>>)
            => /\ acall.fargs = <<<<"args">>>>
                    => aresult = Returned(TupVal(<<StrVal(<<"x">>),
                                                   StrVal(<<"y">>)>>))
               /\ acall.fargs = <<<<"kwargs">>>>
                    => aresult = Returned(DictVal(<<"kw">>, <<StrVal(<<"z">>)>>))
               /\ acall.fargs = <<<<"args", "[", "1", "]">>>>
                    => aresult = Returned(StrVal(<<"y">>))

\* C15 witness: argname('args[1]') in func(*args, **kwargs) called as
\* func(x, y, kw=z) has returned.
C15_Witness ==
    /\ ArgnameBound /\ VariadicCallee /\ LeadingParams = 0
    /\ acall.args = <<Name("x"), Name("y")>>
    /\ acall.keywords = <<Keyword("kw", Name("z"))>>
    /\ acall.fargs = <<<<"args", "[", "1", "]">>>>
    /\ aresult.kind = "return"

\* C15 witness of the empty case: argname('kwargs') for func() has returned.
C15_WitnessEmpty ==
    /\ ArgnameBound /\ VariadicCallee
    /\ acall.args = <<>> /\ acall.keywords = <<>>
    /\ acall.fargs = <<<<"kwargs">>>>
    /\ aresult.kind = "return"

\* C16 (as claimed): asking for an index beyond the tuple bound to the
\* variadic-positional parameter makes argname raise ImproperUseError.
C16_IndexBeyondTupleRaises ==
    (ArgnameBound /\ Len(acall.fargs) = 1
       /\ ParseFarg(acall.fargs[1]).sub = "int"
       /\ ParseFarg(acall.fargs[1]).name = <<"args">>
       /\ "args" \in DOMAIN argument_sources
       /\ argument_sources["args"].k = "tuple"
       /\ ParseFarg(acall.fargs[1]).index >= Len(argument_sources["args"].e))
    => aresult = Raises("ImproperUseError")

\* C17 (as claimed): in func(*args, **kwargs) called as func(x, y, kw=z),
\* argname('kwargs["kw"]') returns 'z' as argname('kwargs[kw]') does.
C17_QuotedKeyAccepted ==
    (ArgnameBound /\ VariadicCallee /\ LeadingParams = 0
       /\ acall.args = <<Name("x"), Name("y")>>
       /\ acall.keywords = <<Keyword("kw", Name("z"))>>
       /\ acall.fargs \in {<<<<"kwargs", "[", "kw", "]">>>>,
                           <<<<"kwargs", "[", "\"", "kw", "\"", "]">>>>})
    => aresult = Returned(StrVal(<<"z">>))

\* The binding of the parameter a plain or starred request names.
BindingOf(farg) == argument_sources[ParseFarg(farg).name[1]]

\* What a requested name is to contribute: the elements of the tuple for a
\* starred name, its binding as one element otherwise.
Contribution(farg) ==
    IF ParseFarg(farg).star THEN BindingOf(farg).e ELSE <<BindingOf(farg)>>

RECURSIVE Contributions(_)
Contributions(fargs) ==
    IF fargs = <<>> THEN <<>>
    ELSE Contribution(fargs[1]) \o Contributions(Tail(fargs))

\* Every requested name is a bound parameter, asked for plainly or starred,
\* the starred ones being bound to tuples.
PlainOrStarred ==
    \A j \in 1..Len(acall.fargs) :
        LET p == ParseFarg(acall.fargs[j])
        IN /\ p.sub = "None"
           /\ Len(p.name) = 1 /\ p.name[1] \in DOMAIN argument_sources
           /\ p.star => argument_sources[p.name[1]].k = "tuple"

\* C18 (as claimed): for names asked for in any order, argname returns the
\* tuple in which each '*name' stands for the elements of its tuple, in
\* order, and every other name for exactly one element, its own binding; a
\* name after a starred one is not expanded.
C18_OnlyStarredExpanded ==
    (ArgnameBound /\ NamesPassed /\ acall.vars_only /\ Len(acall.fargs) >= 2
       /\ PlainOrStarred)
    => aresult = Returned(TupVal(Contributions(acall.fargs)))

\* The subscript, written as tokens, of the one requested name.
TheFarg == ParseFarg(acall.fargs[1])

\* The one requested name is that of a bound parameter.
FargBound == Len(TheFarg.name) = 1 /\ TheFarg.name[1] \in DOMAIN argument_sources

C19_WitnessLookup ==
    /\ ArgnameBound /\ FargBound
    /\ acall.fargs = <<<<"kwargs", "[", "x", "]">>>>
    /\ aresult = Returned(StrVal(<<"x">>))

RECURSIVE NoRawNode(_)
\* A value that holds no raw syntax node at any depth.
NoRawNode(v) ==
    /\ v.k # "ast"
    /\ \A j \in 1..Len(v.e) : NoRawNode(v.e[j])

\* The requested parameters are bound to, or hold, an argument expression
\* that is neither a name, an attribute nor a constant.
AsksForExpression ==
    \E j \in 1..Len(acall.fargs) :
        LET p == ParseFarg(acall.fargs[j])
        IN /\ Len(p.name) = 1 /\ p.name[1] \in DOMAIN argument_sources
           /\ p.sub = "None"
           /\ ~NoRawNode(argument_sources[p.name[1]])

\* C20 (as claimed): with vars_only=True argname never returns a raw syntax
\* node, and a request for a parameter bound to an argument expression that
\* is neither a name, an attribute nor a constant raises ImproperUseError,
\* also where the expression sits in the tuple of *args or the mapping of
\* **kwargs.
C20_VarsOnlyNoRawNode ==
    (ArgnameBound /\ acall.vars_only)
    => /\ aresult.kind = "return" => NoRawNode(aresult.val)
       /\ (Len(acall.fargs) = 1 /\ AsksForExpression)
            => aresult = Raises("ImproperUseError")

TypeOKArgname ==
    /\ apc \in {"call", "loop", "done"}
    /\ aresult.kind \in {"pending", "return", "raise"}
    /\ fi <= Len(acall.fargs)

TypeOKVarname ==
    /\ vpc \in {"call", "assign", "done"}
    /\ vresult.kind \in {"pending", "return", "raise"}
    /\ vresult.val.k \in {"str", "tuple", "None"}
    /\ Len(warnings) <= 1

(***************************************************************************)
(* Properties of get_node_by_frame.                                        *)
(***************************************************************************)
\* get_node has answered for a frame that get_frame delivered and whose
\* executing node is missing.
NodeMissing == refnode # "pending" /\ env \in {"nosource", "ambiguous"}

\* C21: get_node_by_frame returns None and raises nothing both when the frame
\* has no source text and when it has source but the executing node cannot
\* be identified; the caller decides whether None is fatal.
C21_MissingNodeIsNone == NodeMissing => refnode = "None"

\* C21, amended: without source text get_node_by_frame returns None whatever
\* raise_exc is; with source text and tree but no executing node it returns
\* None only when raise_exc is off and raises VarnameRetrievingError itself
\* when raise_exc is on.  On None the caller raises VarnameRetrievingError
\* if raise_exc and returns None otherwise.
C21_MissingNodeAmended ==
    NodeMissing
    => /\ env = "nosource" => refnode = "None"
       /\ (env = "ambiguous" /\ ~raise_exc) => refnode = "None"
       /\ (env = "ambiguous" /\ raise_exc) => refnode = "VarnameRetrievingError"
       /\ vresult = IF raise_exc THEN Raises("VarnameRetrievingError")
                                 ELSE Returned(NoneVal)

\* C21 witness: source was there, the node was not, raise_exc was on, and
\* get_node_by_frame raised.
C21_Witness ==
    /\ env = "ambiguous" /\ raise_exc /\ vpc = "done"
    /\ refnode = "VarnameRetrievingError"

(***************************************************************************)
(* Strict mode and the role of the call inside the assignment.              *)
(***************************************************************************)
\* The call is a direct child of an assignment node without being the value
\* it assigns (the annotation of  x: f() = 1, for one).
ChildInOtherRole ==
    /\ site.parents[1].t \in ASSIGN_TYPES
    /\ site.parents[1].role # "value"

\* C27: with strict=True varname returns a name only when the result of the
\* call is the value the assignment assigns; a call that is a direct child
\* of an assignment node in another role yields ImproperUseError.
C27_StrictNeedsValueRole ==
    (Resolved /\ strict /\ ChildInOtherRole)
    => vresult = Raises("ImproperUseError")

(***************************************************************************)
(* Termination of the walk.                                                *)
(***************************************************************************)
\* An iteration of the loop of get_frame that does not end the call moves
\* the frame index outward.
IndexAdvances == (pc = "walk" /\ pc' = "walk") => i' > i

\* C29: get_frame terminates on every finite stack for every ignore list:
\* the frame index strictly increases on each iteration of the walk that
\* does not return, also when the skip count of an IgnoreDecorated rule is
\* zero or negative, and the call ends.
C29_WalkTerminates == [][IndexAdvances]_vars /\ <>(pc = "done")

\* C29 witness: a rule with a negative skip count matched (the index it
\* looks at wraps round to the outer end of the stack), the frame was
\* counted all the same, and the walk went on to end with a later frame.
C29_Witness ==
    /\ pc = "done"
    /\ outcome.kind = "frame"
    /\ \E k \in 1..Len(visits) :
          /\ visits[k].rule # 0
          /\ ignore_list[visits[k].rule].n < 0
          /\ visits[k].counted
          /\ visits[k].idx < outcome.idx

(***************************************************************************)
(* The walk as a function of the stack, the rules and N.                   *)
(***************************************************************************)
\* The while loop of get_frame from index k on, with left frames still to
\* count: what the call ends with.
RECURSIVE WalkFrom(_, _, _, _, _)
WalkFrom(k, left, list, frameinfos, marks) ==
    IF k >= Len(frameinfos)
    THEN Outcome("None", -1, "")
    ELSE LET r == nextframe_to_check(list, k, frameinfos, marks)
         IN IF r.raised
            THEN Outcome("VarnameRetrievingError", -1, "QualnameNonUniqueError")
            ELSE IF Ignored(r.next)
            THEN WalkFrom(k + r.next, left, r.list, frameinfos, marks)
            ELSE IF left - 1 = 0
            THEN Outcome("frame", k, "")
            ELSE WalkFrom(k + 1, left - 1, r.list, frameinfos, marks)

\* IgnoreList.create(ignore_).get_frame(n) on the stack frameinfos.
get_frame(frameinfos, ignore_, n) ==
    LET c == IgnoreListCreate(ignore_)
    IN IF c.raised
       THEN Outcome("QualnameNonUniqueError", -1, "")
       ELSE WalkFrom(0, n, c.list, frameinfos, c.markers)

\* C23: for every stack, ignore list and N, get_frame ends the same way with
\* config.debug set as with it clear: the frame returned or the failure is
\* the one the stack, the list and N alone determine, lines are written to
\* the trace only when debug is set, and nothing else depends on it.
C23_DebugHasNoEffect ==
    /\ pc = "done" => outcome = get_frame(frames, ignore, N)
    /\ ~debug => log = <<>>
    /\ debug => Len(log) >= Len(visits) - 1

\* C23 witness: a walk with debug set passed over a frame a rule matched,
\* wrote its lines and returned a frame.
C23_Witness ==
    /\ debug
    /\ pc = "done"
    /\ outcome.kind = "frame"
    /\ outcome.idx >= 1
    /\ Len(log) >= 2
    /\ \E k \in 1..Len(visits) : visits[k].rule # 0 /\ ~visits[k].counted

(***************************************************************************)
(* The debug trace.                                                        *)
(***************************************************************************)
\* The visit that returned the frame, when one was returned.
IsResultVisit(k) == outcome.kind = "frame" /\ k = Len(visits)

\* The counted frames after visit k that are passed over before the result.
SkippedAfter(k) == {j \in CountedVisits : j > k /\ ~IsResultVisit(j)}

InsertAt(list, p, e) == SubSeq(list, 1, p) \o <<e>> \o SubSeq(list, p + 1, Len(list))

\* The elements tried as the extra rule: those of FuncElems and the plain
\* function rule for the other code object of FuncFrames.
ExtraElems == FuncElems \cup {ElemFunction("u")}

\* The same call with one more element in its ignore argument.
WithExtraRule(p, e) == get_frame(frames, InsertAt(ignore, p, e), N)

\* C28: adding a rule to an ignore list never moves the selected frame
\* inward: on the same stack and for the same N, get_frame with one more
\* rule put in at any position returns a frame whose index is at least the
\* index returned without it, or fails (stated for the calls that return a
\* frame: a frame returned with the extra rule is never further in).
C28_ExtraRuleNeverInward ==
    (pc = "done" /\ outcome.kind = "frame")
    => \A p \in 0..Len(ignore) : \A e \in ExtraElems :
          LET o == WithExtraRule(p, e)
          IN o.kind = "frame" => o.idx >= outcome.idx

(***************************************************************************)
(* nameof and bytecode_nameof.                                             *)
(*                                                                         *)
(* The instructions of the frame are what dis.get_instructions lists for   *)
(* the expression the frame is executing, in the layout of the running     *)
(* interpreter: up to 3.10 CALL_FUNCTION, CALL_METHOD, CALL_FUNCTION_KW     *)
(* after a LOAD_CONST of the keyword names, and no CACHE entries; 3.11 and *)
(* 3.12 CALL after KW_NAMES, 3.11 with a PRECALL in front; 3.13 CALL and   *)
(* CALL_KW after a LOAD_CONST of the names; from 3.11 on CACHE entries     *)
(* behind LOAD_ATTR, BINARY_OP, BINARY_SUBSCR, PRECALL and the calls.      *)
(***************************************************************************)
Instr(opname, argrepr) == [opname |-> opname, argrepr |-> argrepr]

Layout(call, kwcall, kwload, precall, caches) ==
    [call |-> call, kwcall |-> kwcall, kwload |-> kwload, precall |-> precall,
     caches |-> caches]

Layouts ==
    {Layout("CALL_FUNCTION", "CALL_FUNCTION_KW", "LOAD_CONST", FALSE, 0)}
    \cup {Layout("CALL", "CALL", "KW_NAMES", pre, c) :
            pre \in BOOLEAN, c \in 1..MaxCaches}
    \cup {Layout("CALL", "CALL_KW", "LOAD_CONST", FALSE, c) : c \in 1..MaxCaches}

Caches(n) == [j \in 1..n |-> Instr("CACHE", "")]

\* The instructions that push the value of an expression.
RECURSIVE Load(_, _)
Load(node, lay) ==
    IF node.t = "Name" THEN <<Instr("LOAD_NAME", node.id)>>
    ELSE IF node.t = "Constant" THEN <<Instr("LOAD_CONST", node.id)>>
    ELSE IF node.t = "Attribute"
      THEN Load(node.kids[1], lay) \o <<Instr("LOAD_ATTR", node.id)>>
           \o Caches(lay.caches)
    ELSE IF node.t = "Subscript"
      THEN Load(node.kids[1], lay) \o Load(node.kids[2], lay)
           \o <<Instr("BINARY_SUBSCR", "")>> \o Caches(lay.caches)
    ELSE IF node.t = "BinOp"
      THEN Load(node.kids[1], lay) \o Load(node.kids[2], lay)
           \o <<Instr(IF lay.caches = 0 THEN "BINARY_ADD" ELSE "BINARY_OP", "+")>>
           \o Caches(lay.caches)
    ELSE IF node.t = "Call"
      THEN Load(node.kids[1], lay)
           \o (IF lay.precall THEN <<Instr("PRECALL", "")>> \o Caches(lay.caches)
               ELSE <<>>)
           \o <<Instr(lay.call, "")>> \o Caches(lay.caches)
    ELSE IF node.t = "Starred" THEN Load(node.kids[1], lay)
    ELSE <<Instr("NOP", "")>>

RECURSIVE LoadAll(_, _)
LoadAll(nodes, lay) ==
    IF nodes = <<>> THEN <<>>
    ELSE Load(Head(nodes), lay) \o LoadAll(Tail(nodes), lay)

\* The instructions up to and including the one the frame is executing:
\* the call  nameof(args, keywords)  or, for an operator method that asks
\* for the frame of its operands, the binary operation itself.
Executing(c) ==
    IF c.shape = "binop" THEN Load(BinOp(c.args[1], c.args[1]), c.lay)
    ELSE LET starred == \E j \in 1..Len(c.args) : c.args[j].t = "Starred"
             op == IF starred THEN "CALL_FUNCTION_EX"
                   ELSE IF c.keywords # <<>> THEN c.lay.kwcall
                   ELSE c.lay.call
         IN <<Instr("LOAD_NAME", "nameof")>>
            \o LoadAll(c.args, c.lay)
            \o LoadAll([j \in 1..Len(c.keywords) |-> c.keywords[j].value], c.lay)
            \o (IF c.keywords # <<>> /\ ~starred
                THEN <<Instr(c.lay.kwload, "")>> ELSE <<>>)
            \o (IF c.lay.precall /\ ~starred
                THEN <<Instr("PRECALL", "")>> \o Caches(c.lay.caches) ELSE <<>>)
            \o <<Instr(op, "")>>

\* list(dis.get_instructions(code, show_caches=True)): the instruction being
\* executed and the CACHE entries behind it.
Instructions(c) ==
    IF c.shape = "binop" THEN Executing(c)
    ELSE Executing(c) \o Caches(c.lay.caches)

\* instruction.offset of the instruction at (0-based) index k.
OffsetOf(k) == 2 * k

\* frame.f_lasti: the offset of the instruction being executed or, where it
\* has CACHE entries, of one of them (c.drift entries further on).
Lasti(c) ==
    OffsetOf(Len(Executing(c)) - 1
             - (IF c.shape = "binop" THEN c.lay.caches ELSE 0) + c.drift)

\* while instructions[k].opname in opnames: k -= 1
RECURSIVE SkipBack(_, _, _)
SkipBack(instructions, k, opnames) ==
    IF PyAt(instructions, k).opname \in opnames
    THEN SkipBack(instructions, k - 1, opnames)
    ELSE k

\* The index of the one instruction at the offset, CACHE entries skipped.
CurrentInstructionIndex(instructions, offset) ==
    SkipBack(instructions,
             CHOOSE k \in 0..(Len(instructions) - 1) : OffsetOf(k) = offset,
             {"CACHE"})

PosOnlyError == "single positional argument"
WeirdError == "weird way"

\* A variant that takes every instruction that is no plain call for weird.
CallCheckWeirdOnly(opname) ==
    IF opname \in {"CALL_FUNCTION", "CALL_METHOD", "CALL", "CALL_KW"} THEN ""
    ELSE WeirdError

\* The two tests of bytecode_nameof on the current instruction: the message
\* of the VarnameRetrievingError raised, "" when the instruction passes.
CallCheck(opname) ==
    IF opname \in {"CALL_FUNCTION_EX", "CALL_FUNCTION_KW"} THEN PosOnlyError
    ELSE IF opname \notin {"CALL_FUNCTION", "CALL_METHOD", "CALL", "CALL_KW"}
      THEN WeirdError
    ELSE ""

\* A variant that takes the instruction right before the call.
NameInstructionIndexNoSkip(instructions, k) == k - 1

\* The index of name_instruction: one back, CACHE and PRECALL skipped.
NameInstructionIndex(instructions, k) ==
    SkipBack(instructions, k - 1, {"CACHE", "PRECALL"})

\* opname.startswith("LOAD_")
IsLoad(opname) ==
    opname \in {"LOAD_NAME", "LOAD_ATTR", "LOAD_CONST", "LOAD_FAST", "LOAD_GLOBAL"}

\* str.isidentifier for the texts dis gives as argrepr.
IsIdentifier(argrepr) == argrepr \notin {"", "+"} /\ argrepr \notin Digits

NReturned(val) == [kind |-> "return", exc |-> "", msg |-> "", val |-> val]
NRaises(exc, msg) == [kind |-> "raise", exc |-> exc, msg |-> msg, val |-> NoneVal]

\* The tests of bytecode_nameof on name_instruction, and its return.
NameCheck(instr) ==
    IF instr.opname \in {"KW_NAMES", "LOAD_CONST"}
      THEN NRaises("VarnameRetrievingError", PosOnlyError)
    ELSE IF ~IsLoad(instr.opname)
      THEN NRaises("VarnameRetrievingError", "must be a variable or attribute")
    ELSE IF ~IsIdentifier(instr.argrepr)
      THEN NRaises("VarnameRetrievingError", "obviously wrong")
    ELSE NReturned(StrVal(Chars(instr.argrepr)))

\* argname as a function: get_argument_sources, the loop over the requested
\* names and the return statement.
RECURSIVE ArgnameLoopFrom(_, _, _, _, _)
ArgnameLoopFrom(j, fargs, sources, out_, star_) ==
    IF j > Len(fargs)
    THEN IF Len(fargs) = 1 /\ ~star_ THEN Returned(out_[1])
         ELSE Returned(TupVal(out_))
    ELSE LET r == LoopBody(fargs[j], sources, out_, star_)
         IN IF r.exc # "" THEN Raises(r.exc)
            ELSE ArgnameLoopFrom(j + 1, fargs, sources, r.out, r.star)

argname(sig, args, keywords, fargs, vars_only_) ==
    LET srcs == get_argument_sources(sig, args, keywords, vars_only_)
    IN IF srcs.exc # "" THEN Raises("VarnameRetrievingError")
       ELSE ArgnameLoopFrom(1, fargs, srcs.arguments, <<>>, FALSE)

\* def nameof(var, *more_vars, frame=1, vars_only=True)
NameofSignature ==
    <<Param("var", "POSITIONAL_OR_KEYWORD"), Param("more_vars", "VAR_POSITIONAL"),
      Param("frame", "KEYWORD_ONLY"), Param("vars_only", "KEYWORD_ONLY")>>

\* nameof where the call node was found: argname("var", "*more_vars"), and
\* out or out[0].
NameofBySource(c) ==
    LET out == argname(NameofSignature, c.args, c.keywords,
                       <<<<"var">>, <<"*", "more_vars">>>>, c.vars_only)
    IN IF out.kind = "raise" THEN NRaises(out.exc, "")
       ELSE IF Len(c.args) > 1 THEN NReturned(out.val)
       ELSE NReturned(out.val.e[1])

(***************************************************************************)
(* The calls of nameof explored.                                           *)
(***************************************************************************)
NameofCall(shape, args, keywords, vars_only, lay, drift, e, filename) ==
    [shape |-> shape, args |-> args, keywords |-> keywords,
     vars_only |-> vars_only, lay |-> lay, drift |-> drift, env |-> e,
     filename |-> filename]

\* x, a.b, a.b.c, x[0].b, 1, 1 + 2, g(), *x, x[0]
SingleArgs ==
    { Name("x"), Attribute(Name("a"), "b"),
      Attribute(Attribute(Name("a"), "b"), "c"),
      Attribute(Subscript(Name("x"), Constant("0")), "b"),
      Constant("1"), OnePlusTwo, Call(Name("g")), Starred(Name("x")),
      Subscript(Name("x"), Constant("0")) }

\* No keyword, frame=1, vars_only=0.
NameofKeywords ==
    { [keywords |-> <<>>, vars_only |-> TRUE],
      [keywords |-> <<Keyword("frame", Constant("1"))>>, vars_only |-> TRUE],
      [keywords |-> <<Keyword("vars_only", Constant("0"))>>, vars_only |-> FALSE] }

\* nameof(arg) and nameof(arg, keyword=...).
OneArgCalls ==
    { NameofCall("call", <<a>>, k.keywords, k.vars_only, lay, d, e, "<string>") :
        a \in SingleArgs, k \in NameofKeywords, lay \in Layouts,
        d \in 0..MaxCaches, e \in {"node", "nosource", "ambiguous"} }

\* nameof(x, a.b) from a file, from exec and from the REPL.
TwoArgCalls ==
    { NameofCall("call", <<Name("x"), Attribute(Name("a"), "b")>>, <<>>, TRUE,
                 lay, 0, e, f) :
        lay \in Layouts, e \in {"node", "nosource", "ambiguous"},
        f \in {"<stdin>", "<string>", "f.py"} }

\* The frame asked for is in the middle of  x + x  (nameof called by __add__
\* with frame=2), its source out of reach.
OperatorCalls ==
    { NameofCall("binop", <<Name("x")>>, <<>>, TRUE, lay, d, "nosource",
                 "<string>") :
        lay \in Layouts, d \in 0..MaxCaches }

NameofCalls ==
    {c \in OneArgCalls \cup TwoArgCalls \cup OperatorCalls :
        c.drift <= c.lay.caches}

NameofInit ==
    /\ WalkIdle
    /\ VarnameIdle
    /\ ArgnameIdle
    /\ RegisterIdle
    /\ ThreadsIdle
    /\ ncall \in NameofCalls
    /\ npc = "call"
    /\ nidx = 0
    /\ nresult = [kind |-> "pending", exc |-> "", msg |-> "", val |-> NoneVal]

(***************************************************************************)
(* nameof up to the choice of the path: get_node_by_frame(frameobj,        *)
(* raise_exc=True); without a node bytecode_nameof for a single argument   *)
(* and VarnameRetrievingError for more.                                    *)
(***************************************************************************)
NameofGetNode ==
    /\ npc = "call"
    /\ LET node == get_node_by_frame(ncall.env, TRUE)
       IN IF node = "node"
            THEN npc' = "source" /\ UNCHANGED nresult
          ELSE IF node = "VarnameRetrievingError"
            THEN /\ npc' = "done"
                 /\ nresult' = NRaises("VarnameRetrievingError", "call node")
          ELSE IF Len(ncall.args) = 1
            THEN npc' = "bytecode" /\ UNCHANGED nresult
          ELSE /\ npc' = "done"
               /\ nresult' = NRaises("VarnameRetrievingError",
                                IF ncall.filename = "<stdin>" THEN "REPL"
                                ELSE IF ncall.filename = "<string>" THEN "exec/eval"
                                ELSE "Source code unavailable")
    /\ UNCHANGED <<ncall, nidx>>
    /\ UNCHANGED <<wvars, evars, avars, rvars, tvars>>

\* nameof with the call node: argname("var", "*more_vars", func=nameof).
NameofSource ==
    /\ npc = "source"
    /\ npc' = "done"
    /\ nresult' = NameofBySource(ncall)
    /\ UNCHANGED <<ncall, nidx>>
    /\ UNCHANGED <<wvars, evars, avars, rvars, tvars>>

\* bytecode_nameof, first half: the instruction at f_lasti, CACHE entries
\* skipped, must be a call of plain positional arguments.
NameofBytecodeCall ==
    /\ npc = "bytecode"
    /\ LET instructions == Instructions(ncall)
           k == CurrentInstructionIndex(instructions, Lasti(ncall))
           msg == CallCheck(PyAt(instructions, k).opname)
       IN /\ nidx' = k
          /\ IF msg # ""
               THEN /\ npc' = "done"
                    /\ nresult' = NRaises("VarnameRetrievingError", msg)
             ELSE npc' = "name" /\ UNCHANGED nresult
    /\ UNCHANGED ncall
    /\ UNCHANGED <<wvars, evars, avars, rvars, tvars>>

\* bytecode_nameof, second half: the instruction that pushed the argument.
NameofBytecodeName ==
    /\ npc = "name"
    /\ LET instructions == Instructions(ncall)
           k == NameInstructionIndex(instructions, nidx)
       IN /\ nidx' = k
          /\ nresult' = NameCheck(PyAt(instructions, k))
    /\ npc' = "done"
    /\ UNCHANGED ncall
    /\ UNCHANGED <<wvars, evars, avars, rvars, tvars>>

NameofNext ==
    NameofGetNode \/ NameofSource \/ NameofBytecodeCall \/ NameofBytecodeName

SpecNameof == NameofInit /\ [][NameofNext]_vars

(***************************************************************************)
(* Properties of nameof.                                                   *)
(***************************************************************************)
RECURSIVE IsAttributeChain(_)
\* A variable, or attribute accesses on one: x, a.b, a.b.c.
IsAttributeChain(node) ==
    \/ node.t = "Name"
    \/ node.t = "Attribute" /\ IsAttributeChain(node.kids[1])

\* The call passes exactly one positional argument, a variable or an
\* attribute chain, and nothing else.
OneVariableCall ==
    /\ ncall.shape = "call"
    /\ Len(ncall.args) = 1
    /\ IsAttributeChain(ncall.args[1])
    /\ ncall.keywords = <<>>

\* nameof has ended after going through bytecode_nameof.
ByBytecode == npc = "done" /\ ncall.env = "nosource" /\ Len(ncall.args) = 1

C22_WitnessSource ==
    /\ npc = "done" /\ ncall.env = "node" /\ OneVariableCall
    /\ ncall.args[1] = Attribute(Attribute(Name("a"), "b"), "c")
    /\ nresult = NReturned(StrVal(<<"c">>))

\* The instruction bytecode_nameof examines first.
CurrentOpname ==
    LET instructions == Instructions(ncall)
    IN PyAt(instructions,
            CurrentInstructionIndex(instructions, Lasti(ncall))).opname

PlainCallOpnames == {"CALL_FUNCTION", "CALL_METHOD", "CALL", "CALL_KW"}

\* C26: bytecode_nameof, CACHE entries skipped, accepts only a plain call
\* instruction at the frame's offset: CALL_FUNCTION_EX and every other
\* instruction is rejected with the "weird" VarnameRetrievingError, and no
\* name is returned.
C26_NonCallIsWeird ==
    (ByBytecode /\ CurrentOpname \notin PlainCallOpnames)
    => nresult = NRaises("VarnameRetrievingError", WeirdError)

\* C26, amended: CALL_FUNCTION_EX and CALL_FUNCTION_KW are rejected with the
\* VarnameRetrievingError that asks for a single positional argument, every
\* other instruction that is no plain call (CALL_FUNCTION, CALL_METHOD,
\* CALL, CALL_KW) with the "weird" one; no name is returned for either.
C26_NonCallRejected ==
    (ByBytecode /\ CurrentOpname \notin PlainCallOpnames)
    => nresult = NRaises("VarnameRetrievingError",
                         IF CurrentOpname \in {"CALL_FUNCTION_EX", "CALL_FUNCTION_KW"}
                         THEN PosOnlyError ELSE WeirdError)

\* C26 witness: f_lasti lay on a CACHE entry behind a binary operation, and
\* the call was rejected as weird.
C26_Witness ==
    /\ ByBytecode
    /\ ncall.shape = "binop" /\ ncall.drift > 0
    /\ nresult = NRaises("VarnameRetrievingError", WeirdError)

\* C26 witness: an unpacked-argument call was rejected.
C26_WitnessUnpacked ==
    /\ ByBytecode
    /\ CurrentOpname = "CALL_FUNCTION_EX"
    /\ nresult = NRaises("VarnameRetrievingError", PosOnlyError)

(***************************************************************************)
(* helpers.register on a function: the wrapper stores the name varname     *)
(* resolved in cls_or_func.__globals__["__varname__"], calls the function  *)
(* and deletes the key in its finally clause.  The registered functions    *)
(* here are defined in one module, whose globals they share.               *)
(***************************************************************************)
\* The names the calls are assigned to:  a = func(), and inside a body
\* b = func1().
RegisterNames == {"a", "b"}

Invocation(name, pc_, reads, exc) ==
    [name |-> name, pc |-> pc_, reads |-> reads, exc |-> exc]

\* The invocation whose code is running.
Top == rstack[Len(rstack)]

RegisterInit ==
    /\ WalkIdle
    /\ VarnameIdle
    /\ ArgnameIdle
    /\ NameofIdle
    /\ ThreadsIdle
    /\ rstack = <<>>
    /\ rglobals = Missing
    /\ routcome = ""

\* The wrapper up to the call of the function: __varname__ is set.  Called
\* by the module or by the body of a registered function.
WrapperEnter ==
    /\ routcome = ""
    /\ Len(rstack) < MaxNest
    /\ rstack # <<>> => Top.pc = "body"
    /\ \E name \in RegisterNames :
          /\ rglobals' = name
          /\ rstack' = Append(rstack, Invocation(name, "body", <<>>, ""))
    /\ UNCHANGED routcome
    /\ UNCHANGED <<wvars, evars, avars, nvars, tvars>>

\* The body evaluates __varname__: a NameError where the key is absent.
BodyRead ==
    /\ routcome = ""
    /\ rstack # <<>>
    /\ Top.pc = "body"
    /\ Len(Top.reads) < MaxReads
    /\ rstack' = [rstack EXCEPT ![Len(rstack)] =
                     IF rglobals = Missing
                     THEN [@ EXCEPT !.pc = "raise", !.exc = "NameError"]
                     ELSE [@ EXCEPT !.reads = Append(@, rglobals)]]
    /\ UNCHANGED <<rglobals, routcome>>
    /\ UNCHANGED <<wvars, evars, avars, nvars, tvars>>

\* The function returns or raises and the finally clause of the wrapper
\* runs  del cls_or_func.__globals__["__varname__"]:  a KeyError where the
\* key is absent.  An exception goes on into the calling body, or out.
WrapperExit ==
    /\ routcome = ""
    /\ rstack # <<>>
    /\ LET exc == IF rglobals = Missing THEN "KeyError" ELSE Top.exc
           rest == SubSeq(rstack, 1, Len(rstack) - 1)
       IN /\ rglobals' = Missing
          /\ IF exc = "" THEN rstack' = rest /\ UNCHANGED routcome
             ELSE IF rest = <<>> THEN rstack' = rest /\ routcome' = exc
             ELSE /\ rstack' = [rest EXCEPT ![Len(rest)] =
                                   [@ EXCEPT !.pc = "raise", !.exc = exc]]
                  /\ UNCHANGED routcome
    /\ UNCHANGED <<wvars, evars, avars, nvars, tvars>>

RegisterNext == WrapperEnter \/ BodyRead \/ WrapperExit

SpecRegister == RegisterInit /\ [][RegisterNext]_vars

\* C30: for a function decorated with register, __varname__ holds the name
\* resolved for the invocation during the whole body and is absent once the
\* invocation has ended, also when registered calls nest: after the inner
\* call returns the outer body still reads its own __varname__, and no
\* wrapper's cleanup fails.
C30_VarnameHeldDuringBody ==
    /\ (rstack # <<>> /\ Top.pc = "body") => rglobals = Top.name
    /\ \A k \in 1..Len(rstack) :
          \A j \in 1..Len(rstack[k].reads) : rstack[k].reads[j] = rstack[k].name
    /\ \A k \in 1..Len(rstack) : rstack[k].exc = ""
    /\ routcome = ""
    /\ rstack = <<>> => rglobals = Missing

(***************************************************************************)
(* Two threads in varname at once.  Each thread has its own stack of the   *)
(* same code: frame 0 runs code executed in the namespace of a module      *)
(* without a file (qualified name f), frame 1 the user's code.  The call   *)
(* is not part of an assignment, so varname ends in ImproperUseError with  *)
(* the message of rich_exc_message.  The steps are the reads and writes of *)
(* what the threads share: the attribute __varname_ignore_id__ of the      *)
(* module and the attribute __frame__ of the cached call node.             *)
(***************************************************************************)
Threads == {1, 2}

\* The call nodes, by the index of the frame whose code holds them.
CallNodes == {0, 1}

\* id(self.ignore): the tuple each call passes is an object of its own.
IgnoreIdOf(t) == t

\* rich_exc_message: msg, then filename:lineno:col and the source lines,
\* read from the node and from the code of the frame node.__frame__ holds;
\* a frame attached to the node runs the code the node belongs to.
RichExcMessage(node, frame_of) ==
    <<"Caller doesn't assign", IF node = 0 THEN ExecFile ELSE UserFile, node>>

ThreadResult(exc, msg) == [exc |-> exc, msg |-> msg]

ThreadsInit ==
    /\ WalkIdle
    /\ VarnameIdle
    /\ ArgnameIdle
    /\ NameofIdle
    /\ RegisterIdle
    /\ tsetup \in [Threads -> BOOLEAN]
    /\ tpc = [t \in Threads |-> "create"]
    /\ tseen = [t \in Threads |-> 0]
    /\ tsel = [t \in Threads |-> -1]
    /\ tread = [t \in Threads |-> 0]
    /\ tresult = [t \in Threads |-> ThreadResult("", <<>>)]
    /\ node_frame = [n \in CallNodes |-> 0]
    /\ ignore_id = 0

\* IgnoreList.create: IgnoreModuleQualname.__init__ for a module without a
\* file sets its __varname_ignore_id__ to the id of the tuple passed.
ThreadCreate(t) ==
    /\ tpc[t] = "create"
    /\ ignore_id' = IF tsetup[t] THEN IgnoreIdOf(t) ELSE ignore_id
    /\ tpc' = [tpc EXCEPT ![t] = "walk"]
    /\ UNCHANGED <<tsetup, tseen, tsel, tread, tresult, node_frame>>
    /\ UNCHANGED <<wvars, evars, avars, nvars, rvars>>

\* IgnoreModuleQualname.match at frame 0, the left operand of the
\* comparison: getattr(self.ignore[0], MODULE_IGNORE_ID_NAME, object()).
ThreadMatchRead(t) ==
    /\ tpc[t] = "walk"
    /\ tseen' = [tseen EXCEPT ![t] = IF tsetup[t] THEN ignore_id ELSE @]
    /\ tpc' = [tpc EXCEPT ![t] = "match"]
    /\ UNCHANGED <<tsetup, tsel, tread, tresult, node_frame, ignore_id>>
    /\ UNCHANGED <<wvars, evars, avars, nvars, rvars>>

\* The right operand, frame.f_globals.get(MODULE_IGNORE_ID_NAME, object()),
\* read from the same dict, and the rest of get_frame(1): frame 0 is passed
\* over when the rule matches and returned when it does not.
ThreadMatchCompare(t) ==
    /\ tpc[t] = "match"
    /\ tsel' = [tsel EXCEPT ![t] =
                   IF tsetup[t] /\ tseen[t] = ignore_id THEN 1 ELSE 0]
    /\ tpc' = [tpc EXCEPT ![t] = "attach"]
    /\ UNCHANGED <<tsetup, tseen, tread, tresult, node_frame, ignore_id>>
    /\ UNCHANGED <<wvars, evars, avars, nvars, rvars>>

\* get_node_by_frame: exect.node.__frame__ = frame, on the node executing
\* caches for the call site.
ThreadAttach(t) ==
    /\ tpc[t] = "attach"
    /\ node_frame' = [node_frame EXCEPT ![tsel[t]] = t]
    /\ tpc' = [tpc EXCEPT ![t] = "message"]
    /\ UNCHANGED <<tsetup, tseen, tsel, tread, tresult, ignore_id>>
    /\ UNCHANGED <<wvars, evars, avars, nvars, rvars>>

\* varname finds no assignment and raises ImproperUseError with
\* rich_exc_message(msg, refnode), which reads node.__frame__.
ThreadMessage(t) ==
    /\ tpc[t] = "message"
    /\ tread' = [tread EXCEPT ![t] = node_frame[tsel[t]]]
    /\ tresult' = [tresult EXCEPT ![t] =
                      ThreadResult("ImproperUseError",
                                   RichExcMessage(tsel[t], node_frame[tsel[t]]))]
    /\ tpc' = [tpc EXCEPT ![t] = "done"]
    /\ UNCHANGED <<tsetup, tseen, tsel, node_frame, ignore_id>>
    /\ UNCHANGED <<wvars, evars, avars, nvars, rvars>>

ThreadsNext ==
    \E t \in Threads :
        \/ ThreadCreate(t)
        \/ ThreadMatchRead(t)
        \/ ThreadMatchCompare(t)
        \/ ThreadAttach(t)
        \/ ThreadMessage(t)

SpecThreads == ThreadsInit /\ [][ThreadsNext]_vars

\* What the call of thread t ends with when no other call is under way.
AloneResult(t) ==
    ThreadResult("ImproperUseError", RichExcMessage(IF tsetup[t] THEN 1 ELSE 0, t))

\* C25: two calls running in different threads, each on its own stack and
\* interleaved in any way, each end as when run alone, with the same
\* message, and nothing written by one call (such as the frame attached to
\* the cached node) is observed by the other.
C25_ThreadsIsolated ==
    \A t \in Threads :
        tpc[t] = "done" => /\ tresult[t] = AloneResult(t)
                           /\ tread[t] = t

====
